---- MODULE Spec2Model ----
(***************************************************************************)
(* Model of the persisted Merkle tree of pg_merkle_tree                    *)
(* (src/pg_merkle_tree/src/merkle_tree.rs, merkle_tree_utils.rs) over the  *)
(* table pgfr_mtree (index_in_mtree bigint UNIQUE, value pgfr).            *)
(*                                                                         *)
(* Field elements are terms: a leaf value k is <<k>>, and the 2-input      *)
(* Poseidon hash of l and r is the pair <<l, r>>, i.e. the permutation is  *)
(* an uninterpreted collision-free function of its ordered inputs.  Every  *)
(* equality between stored hashes that the model reports therefore holds   *)
(* for the real permutation too, and no equality holds by accident.        *)
(***************************************************************************)
EXTENDS Integers, Sequences, FiniteSets, TLC

\* ---------------------------------------------------------------- bounds
\* largest depth argument passed to any entry point
MaxDepth == 2
\* leaf values written by set_leaf are the field elements 0 .. MaxVal
MaxVal == 1
\* number of pgfr_mtree_set_leaf calls explored in one behaviour
MaxCalls == 3

\* backends (callers of the extension functions); the serialized
\* specification Spec drives backend 1 only
Procs == {1, 2}

\* the depth of the tree built by the tests of merkle_tree.rs
TestDepth == 3

Depths == 0 .. MaxDepth
LeafValues == {<<k>> : k \in 0 .. MaxVal}

Pow2(n) == 2 ^ n

\* ------------------------------------------------------- field and hash
\* Fr::default(), the additive identity
FrDefault == <<0>>

\* poseidon_hash_(&[l, r]): two inputs select the registered t = 3
\* parameter set, so the expect() never fires
poseidon_hash_(l, r) == <<l, r>>

\* --------------------------------------------------------- tree indexing
\* Option::None of node_parent
None == -1

\* mutant of node_parent: the index is halved without the shift by one
node_parent_round_down(index) ==
    IF index = 0 THEN None ELSE index \div 2

node_parent(index) ==
    IF index = 0 THEN None ELSE ((index + 1) \div 2) - 1

\* mutant of first_child: the index of the right child
first_child_right(index) == (index * 2) + 2

first_child(index) == (index * 2) + 1

\* ---------------------------------------------------------------- store
\* the table as a map index_in_mtree -> value (the index is unique)
EmptyStore == [i \in {} |-> FrDefault]

HasRow(st, i) == i \in DOMAIN st

\* mutant of update_row: a row that does not exist is inserted
update_row_upsert(st, index, value) == (index :> value) @@ st

\* mutant of update_row: the leaf index is off by one
update_row_off_by_one(st, index, value) ==
    IF HasRow(st, index + 1) THEN [st EXCEPT ![index + 1] = value] ELSE st

\* UPDATE pgfr_mtree SET value = $1 WHERE index_in_mtree = $2:
\* a row that does not exist is not created
update_row(st, index, value) ==
    IF HasRow(st, index) THEN [st EXCEPT ![index] = value] ELSE st

\* mutant of select_value: a missing row reads as the default value
select_value_default(st, index) ==
    IF HasRow(st, index)
    THEN [ok |-> TRUE, v |-> st[index]]
    ELSE [ok |-> TRUE, v |-> FrDefault]

\* SELECT value::pgfr ... WHERE index_in_mtree = $1 LIMIT 1 followed by
\* .unwrap().first().get_one::<PgFr>().unwrap().unwrap(): the value of the
\* row, or a panic when there is no row (get_one on an empty tuple table is
\* Err(InvalidPosition), which the second unwrap turns into a panic)
select_value(st, index) ==
    IF HasRow(st, index)
    THEN [ok |-> TRUE, v |-> st[index]]
    ELSE [ok |-> FALSE, v |-> FrDefault]

\* mutant of bulk_update: the join also matches the row after each index
bulk_update_wide(st, overlay) ==
    [i \in DOMAIN st |->
        IF i \in DOMAIN overlay THEN overlay[i]
        ELSE IF (i - 1) \in DOMAIN overlay THEN overlay[i - 1]
        ELSE st[i]]

\* UPDATE ... FROM UNNEST($1::bigint[], $2::pgfr[]) ... WHERE
\* pgfr_mtree.index_in_mtree = data.i_index: every existing row whose index
\* is in the overlay takes the overlay value
bulk_update(st, overlay) ==
    [i \in DOMAIN st |-> IF i \in DOMAIN overlay THEN overlay[i] ELSE st[i]]

\* ----------------------------------------------------- pgfr_mtree_init
\* level_hashes: Fr::default() for the leaves, then one hash per level up
\* to the root; level_hashes(depth)[k + 1] is the code's level_hashes[k]
RECURSIVE level_hashes(_)
level_hashes(depth) ==
    IF depth = 0
    THEN <<FrDefault>>
    ELSE LET prev == level_hashes(depth - 1)
         IN  Append(prev, poseidon_hash_(prev[depth], prev[depth]))

\* INSERT ... SELECT i, $1 FROM generate_series($2, $3): the rows of one
\* level, in generation order
level_rows(level, hash) ==
    LET level_start_index == Pow2(level) - 1
        level_end_index == Pow2(level + 1) - 2
    IN  [k \in 1 .. (level_end_index - level_start_index + 1) |->
            <<level_start_index + k - 1, hash>>]

\* mutant of init_rows: the level hashes are not reversed
RECURSIVE init_rows_unreversed(_, _)
init_rows_unreversed(hashes, level) ==
    IF level > Len(hashes) - 1
    THEN << >>
    ELSE level_rows(level, hashes[level + 1])
            \o init_rows_unreversed(hashes, level + 1)

\* for (level, hash) in level_hashes.iter().rev().enumerate(): all rows
\* inserted for the levels level .. depth, in insertion order
RECURSIVE init_rows(_, _)
init_rows(hashes, level) ==
    IF level > Len(hashes) - 1
    THEN << >>
    ELSE level_rows(level, hashes[Len(hashes) - level])
            \o init_rows(hashes, level + 1)

RowIndexes(rows) == {rows[k][1] : k \in 1 .. Len(rows)}

\* the unique index pgfr_mtree_index rejects an insert of an index that is
\* already present (or inserted twice); expect() then aborts the call
insert_conflict(st, rows) ==
    \/ \E k \in 1 .. Len(rows) : HasRow(st, rows[k][1])
    \/ \E j, k \in 1 .. Len(rows) : j # k /\ rows[j][1] = rows[k][1]

insert_rows(st, rows) ==
    [i \in (DOMAIN st) \cup RowIndexes(rows) |->
        IF HasRow(st, i)
        THEN st[i]
        ELSE rows[CHOOSE k \in 1 .. Len(rows) : rows[k][1] = i][2]]

\* ------------------------------------------------- pgfr_mtree_get_root
\* Spi::get_one_with_args: Ok(Some(value)) for the row at index 0 (out is
\* the one-element sequence holding the value); with no row at index 0 the
\* tuple table is empty and first().get_one() is Err(InvalidPosition)
pgfr_mtree_get_root(st) ==
    IF HasRow(st, 0)
    THEN [status |-> "ok", out |-> <<st[0]>>]
    ELSE [status |-> "InvalidPosition", out |-> << >>]

\* ------------------------------------------------ pgfr_mtree_get_proof
\* mutant of proof_bit: the two match arms push each other's bit
proof_bit_swapped(index) == IF index % 2 = 0 THEN 0 ELSE 1

\* match index & 1: the direction bit pushed for a node of the path
proof_bit(index) == IF index % 2 = 0 THEN 1 ELSE 0

\* mutant of proof_sibling: both match arms take the node before
proof_sibling_before(index) == index - 1

\* match index & 1: the sibling index pushed for a node of the path
proof_sibling(index) == IF index % 2 = 0 THEN index - 1 ELSE index + 1

\* mutant of proof_walk: the walk stops at the child of the root
RECURSIVE proof_walk_short(_, _, _)
proof_walk_short(index, left_or_right, mtree_indexes) ==
    IF node_parent(index) = None \/ node_parent(node_parent(index)) = None
    THEN [left_or_right |-> left_or_right, mtree_indexes |-> mtree_indexes]
    ELSE proof_walk_short(node_parent(index),
                          Append(left_or_right, proof_bit(index)),
                          Append(mtree_indexes, proof_sibling(index)))

\* while let Some(parent) = node_parent(index) { ... index = parent }
RECURSIVE proof_walk(_, _, _)
proof_walk(index, left_or_right, mtree_indexes) ==
    IF node_parent(index) = None
    THEN [left_or_right |-> left_or_right, mtree_indexes |-> mtree_indexes]
    ELSE proof_walk(node_parent(index),
                    Append(left_or_right, proof_bit(index)),
                    Append(mtree_indexes, proof_sibling(index)))

\* mutant of proof_select: without ORDER BY ord the rows come back in
\* index order, the reverse of the request order
proof_select_index_order(st, mtree_indexes) ==
    LET found == SelectSeq(mtree_indexes, LAMBDA i : HasRow(st, i))
    IN  [k \in 1 .. Len(found) |-> st[found[Len(found) - k + 1]]]

\* SELECT m.value FROM UNNEST($1) WITH ORDINALITY JOIN pgfr_mtree m ...
\* ORDER BY ord: the values of the requested indices that have a row, in
\* request order; the join drops a requested index that has no row
proof_select(st, mtree_indexes) ==
    LET found == SelectSeq(mtree_indexes, LAMBDA i : HasRow(st, i))
    IN  [k \in 1 .. Len(found) |-> st[found[k]]]

Min(a, b) == IF a < b THEN a ELSE b

\* the length check and left_or_right.iter().zip(values)
proof_data(left_or_right, values, mtree_indexes_len) ==
    IF Len(values) # mtree_indexes_len
    THEN [status |-> "panic", out |-> << >>]
    ELSE [status |-> "ok",
          out |-> [k \in 1 .. Min(Len(left_or_right), Len(values)) |->
                      <<left_or_right[k], values[k]>>]]

\* the proof as the ordered list of (direction bit, sibling value); the
\* returned bytes are the length-prefixed serialization of this list
pgfr_mtree_get_proof(st, depth, leaf_index) ==
    LET index == Pow2(depth) + leaf_index - 1
        walk == proof_walk(index, << >>, << >>)
        values == proof_select(st, walk.mtree_indexes)
        res == proof_data(walk.left_or_right, values, Len(walk.mtree_indexes))
    IN  [status |-> res.status, out |-> res.out, idx |-> walk.mtree_indexes]

\* ---------------------------------------------------- mtree_get_hashes
EmptyOverlay == [i \in {} |-> FrDefault]

\* mutant of child_value: the overlay is ignored, every child is read from
\* the store
child_value_stale(st, overlay, child) == select_value(st, child)

\* if to_update.contains_key(&child) { to_update[&child] } else { select }
child_value(st, overlay, child) ==
    IF child \in DOMAIN overlay
    THEN [ok |-> TRUE, v |-> overlay[child]]
    ELSE select_value(st, child)

\* to_update.insert(parent_, PgFr(value))
overlay_insert(overlay, parent, value) == (parent :> value) @@ overlay

\* mutant of hash_parents: the children are hashed in (right, left) order
RECURSIVE hash_parents_swapped(_, _, _, _)
hash_parents_swapped(st, overlay, parent, end_parent) ==
    IF parent > end_parent
    THEN [ok |-> TRUE, overlay |-> overlay]
    ELSE LET left_child == first_child(parent)
             right_child == left_child + 1
             left_child_value == child_value(st, overlay, left_child)
             right_child_value == child_value(st, overlay, right_child)
         IN  IF ~left_child_value.ok \/ ~right_child_value.ok
             THEN [ok |-> FALSE, overlay |-> overlay]
             ELSE hash_parents_swapped(
                      st,
                      overlay_insert(
                          overlay, parent,
                          poseidon_hash_(right_child_value.v,
                                         left_child_value.v)),
                      parent + 1, end_parent)

\* for parent in start_parent..=end_parent { ... }: the overlay after the
\* parents parent .. end_parent, or a panic at the first missing child
RECURSIVE hash_parents(_, _, _, _)
hash_parents(st, overlay, parent, end_parent) ==
    IF parent > end_parent
    THEN [ok |-> TRUE, overlay |-> overlay]
    ELSE LET left_child == first_child(parent)
             right_child == left_child + 1
             left_child_value == child_value(st, overlay, left_child)
         IN  IF ~left_child_value.ok
             THEN [ok |-> FALSE, overlay |-> overlay]
             ELSE LET right_child_value ==
                          child_value(st, overlay, right_child)
                  IN  IF ~right_child_value.ok
                      THEN [ok |-> FALSE, overlay |-> overlay]
                      ELSE hash_parents(
                               st,
                               overlay_insert(
                                   overlay, parent,
                                   poseidon_hash_(left_child_value.v,
                                                  right_child_value.v)),
                               parent + 1, end_parent)

\* ---------------------------------------------------------------- state
VARIABLES
    store,        \* the rows of pgfr_mtree
    pc,           \* per backend: "idle", "get_hashes" or "flush"
    start_index,  \* per backend: mtree_get_hashes' start_index
    end_index,    \* per backend: mtree_get_hashes' end_index
    to_update,    \* per backend: the overlay BTreeMap
    ret,          \* per backend: the current / last call and its outcome
    tree_depth,   \* history: depth of the successful init, -1 before it
    leaves,       \* history: last value written at each leaf position
    aligned,      \* history: every set_leaf so far used the tree's depth
                  \*          and a position in range
    ncalls,       \* history: number of set_leaf calls started
    snap,         \* history: the store after the call that is being repeated
    overlapped,   \* history: a call started while another was in progress
    meter,        \* history: hash evaluations and point reads of a
                  \*          recomputation, per node index
    hash_call,    \* a call of Poseidon::hash: input, status and result
    lazy,         \* the POSEIDON Lazy cell and the threads forcing it
    codec,        \* a call of bytea_to_pgfr: input bytes and outcome
    sponge,       \* a call of Poseidon::hash, round by round
    lfsr,         \* a PoseidonGrainLFSR: register, head and the bits drawn
    deriv,        \* a call of find_poseidon_ark_and_mds, draw by draw
    arith         \* a call of node_parent and first_child

\* the variables of the tree entry points
tree_vars == <<store, pc, start_index, end_index, to_update, ret,
               tree_depth, leaves, aligned, ncalls>>

\* the variables of the other components and of the measurements
gen_vars == <<sponge, lfsr, deriv, arith>>
aux_vars == <<snap, overlapped, meter, hash_call, lazy, codec,
              sponge, lfsr, deriv, arith>>

vars == <<store, pc, start_index, end_index, to_update, ret,
          tree_depth, leaves, aligned, ncalls,
          snap, overlapped, meter, hash_call, lazy, codec,
          sponge, lfsr, deriv, arith>>

\* the record of a call: op, arguments, status ("running", "ok", "panic",
\* "InvalidPosition"), result (out), requested sibling indexes of a proof
\* (idx), inserted indexes of an init in insertion order (idx), index set
\* of the bulk write (written), and the store when the call started (pre)
CallRec(op, depth, pos, value, status, out, idx, written, pre) ==
    [op |-> op, depth |-> depth, pos |-> pos, value |-> value,
     status |-> status, out |-> out, idx |-> idx, written |-> written,
     pre |-> pre]

NoCall ==
    CallRec("none", 0, 0, FrDefault, "ok", << >>, << >>, {}, EmptyStore)

\* the empty table, no call made yet
TreeInit ==
    /\ store = EmptyStore
    /\ pc = [self \in Procs |-> "idle"]
    /\ start_index = [self \in Procs |-> 0]
    /\ end_index = [self \in Procs |-> 0]
    /\ to_update = [self \in Procs |-> EmptyOverlay]
    /\ ret = [self \in Procs |-> NoCall]
    /\ tree_depth = -1
    /\ leaves = EmptyStore
    /\ aligned = TRUE
    /\ ncalls = 0

\* nothing repeated, nothing measured
NoSnap == [repeat |-> FALSE, store |-> EmptyStore]
NoMeter ==
    [hashes |-> [i \in {} |-> 0], reads |-> [i \in {} |-> 0],
     log |-> << >>, iters |-> 0, writes |-> 0]

\* no Poseidon::hash call, the Lazy cell not forced, no cast made
NoHashCall == [inp |-> << >>, status |-> "none", out |-> << >>]
LazyThreadStart == [self \in Procs |-> "start"]
LazyUnforced ==
    [state |-> "uninit", value |-> << >>, read_params |-> << >>,
     tpc |-> LazyThreadStart,
     seen |-> [self \in Procs |-> << >>], nderive |-> 0,
     waited |-> [self \in Procs |-> FALSE],
     nhash |-> [self \in Procs |-> 0],
     out |-> [self \in Procs |-> NoHashCall]]
NoCodec == [input |-> << >>, status |-> "none", out |-> << >>]

\* no hash in progress, no generator built, nothing derived or computed
NoSponge == [status |-> "none"]
NoLfsr == [status |-> "none"]
NoDeriv == [status |-> "none"]
NoArith == [status |-> "none"]

GenIdle ==
    /\ sponge = NoSponge
    /\ lfsr = NoLfsr
    /\ deriv = NoDeriv
    /\ arith = NoArith

AuxIdle ==
    /\ GenIdle
    /\ snap = NoSnap
    /\ overlapped = FALSE
    /\ meter = NoMeter
    /\ hash_call = NoHashCall
    /\ lazy = LazyUnforced
    /\ codec = NoCodec

Init == TreeInit /\ AuxIdle

locals == <<pc, start_index, end_index, to_update>>
history == <<tree_depth, leaves, aligned, ncalls>>

\* pgfr_mtree_init(depth) that inserts every level
InitTree(self, depth) ==
    LET rows == init_rows(level_hashes(depth), 0)
    IN  /\ pc[self] = "idle"
        /\ ~insert_conflict(store, rows)
        /\ store' = insert_rows(store, rows)
        /\ ret' = [ret EXCEPT ![self] =
                      CallRec("init", depth, 0, FrDefault, "ok", << >>,
                              [k \in 1 .. Len(rows) |-> rows[k][1]], {},
                              store)]
        /\ tree_depth' = depth
        /\ leaves' = [p \in 0 .. (Pow2(depth) - 1) |-> FrDefault]
        /\ UNCHANGED <<locals, aligned, ncalls>>

\* pgfr_mtree_init(depth) whose first INSERT hits the unique index: the
\* expect() panics and nothing is inserted
InitTreeFail(self, depth) ==
    LET rows == init_rows(level_hashes(depth), 0)
    IN  /\ pc[self] = "idle"
        /\ insert_conflict(store, rows)
        /\ ret' = [ret EXCEPT ![self] =
                      CallRec("init", depth, 0, FrDefault, "panic", << >>,
                              << >>, {}, store)]
        /\ UNCHANGED <<store, locals, history>>

\* pgfr_mtree_get_root()
GetRoot(self) ==
    LET res == pgfr_mtree_get_root(store)
    IN  /\ pc[self] = "idle"
        /\ ret' = [ret EXCEPT ![self] =
                      CallRec("get_root", 0, 0, FrDefault, res.status,
                              res.out, << >>, {}, store)]
        /\ UNCHANGED <<store, locals, history>>

\* pgfr_mtree_get_proof(depth, leaf_index)
GetProof(self, depth, leaf_index) ==
    LET res == pgfr_mtree_get_proof(store, depth, leaf_index)
    IN  /\ pc[self] = "idle"
        /\ ret' = [ret EXCEPT ![self] =
                      CallRec("get_proof", depth, leaf_index, FrDefault,
                              res.status, res.out, res.idx, {}, store)]
        /\ UNCHANGED <<store, locals, history>>

\* pgfr_mtree_set_leaf, lines 74-91: the leaf UPDATE, then the call of
\* mtree_get_hashes(client, leaf_index_, leaf_index_, &mut to_update)
SetLeafWrite(self, depth, index_in_mtree, leaf_value) ==
    LET leaf_index_ == Pow2(depth) + index_in_mtree - 1
        in_contract == depth = tree_depth /\ index_in_mtree < Pow2(depth)
    IN  /\ pc[self] = "idle"
        /\ ncalls < MaxCalls
        /\ store' = update_row(store, leaf_index_, leaf_value)
        /\ to_update' = [to_update EXCEPT ![self] = EmptyOverlay]
        /\ start_index' = [start_index EXCEPT ![self] = leaf_index_]
        /\ end_index' = [end_index EXCEPT ![self] = leaf_index_]
        /\ pc' = [pc EXCEPT ![self] = "get_hashes"]
        /\ ret' = [ret EXCEPT ![self] =
                      CallRec("set_leaf", depth, index_in_mtree, leaf_value,
                              "running", << >>, << >>, {}, store)]
        /\ ncalls' = ncalls + 1
        /\ aligned' = (aligned /\ in_contract)
        /\ leaves' = IF in_contract
                     THEN [leaves EXCEPT ![index_in_mtree] = leaf_value]
                     ELSE leaves
        /\ UNCHANGED tree_depth

\* mutant of GetHashesLevel: each level is written to the table as soon as
\* it is hashed
GetHashesLevel_write_through(self) ==
    LET start_parent == node_parent(start_index[self])
        end_parent == node_parent(end_index[self])
        res == hash_parents(store, to_update[self], start_parent, end_parent)
    IN  /\ pc[self] = "get_hashes"
        /\ start_parent # None /\ end_parent # None
        /\ res.ok
        /\ to_update' = [to_update EXCEPT ![self] = res.overlay]
        /\ store' = bulk_update(store, res.overlay)
        /\ start_index' = [start_index EXCEPT ![self] =
                              IF start_parent <= end_parent
                              THEN start_parent ELSE @]
        /\ end_index' = [end_index EXCEPT ![self] =
                            IF start_parent <= end_parent
                            THEN end_parent ELSE @]
        /\ UNCHANGED <<pc, ret, history>>

\* mtree_get_hashes: one iteration of the while loop, all children found
GetHashesLevel(self) ==
    LET start_parent == node_parent(start_index[self])
        end_parent == node_parent(end_index[self])
        res == hash_parents(store, to_update[self], start_parent, end_parent)
    IN  /\ pc[self] = "get_hashes"
        /\ start_parent # None /\ end_parent # None
        /\ res.ok
        /\ to_update' = [to_update EXCEPT ![self] = res.overlay]
        \* start_index and end_index are assigned inside the for body
        /\ start_index' = [start_index EXCEPT ![self] =
                              IF start_parent <= end_parent
                              THEN start_parent ELSE @]
        /\ end_index' = [end_index EXCEPT ![self] =
                            IF start_parent <= end_parent
                            THEN end_parent ELSE @]
        /\ UNCHANGED <<store, pc, ret, history>>

\* mtree_get_hashes: a child has no row, the unwrap panics and the call
\* ends without the bulk write
GetHashesPanic(self) ==
    LET start_parent == node_parent(start_index[self])
        end_parent == node_parent(end_index[self])
        res == hash_parents(store, to_update[self], start_parent, end_parent)
    IN  /\ pc[self] = "get_hashes"
        /\ start_parent # None /\ end_parent # None
        /\ ~res.ok
        /\ pc' = [pc EXCEPT ![self] = "idle"]
        /\ ret' = [ret EXCEPT ![self].status = "panic"]
        /\ UNCHANGED <<store, start_index, end_index, to_update, history>>

\* mutant of GetHashesDone: the loop also ends when the range has reached
\* the children of the root
GetHashesDone_below_root(self) ==
    /\ pc[self] = "get_hashes"
    /\ \/ node_parent(start_index[self]) \in {None, 0}
       \/ node_parent(end_index[self]) \in {None, 0}
    /\ pc' = [pc EXCEPT ![self] = "flush"]
    /\ UNCHANGED <<store, start_index, end_index, to_update, ret, history>>

\* mtree_get_hashes: the while condition fails (the root has no parent)
GetHashesDone(self) ==
    /\ pc[self] = "get_hashes"
    /\ \/ node_parent(start_index[self]) = None
       \/ node_parent(end_index[self]) = None
    /\ pc' = [pc EXCEPT ![self] = "flush"]
    /\ UNCHANGED <<store, start_index, end_index, to_update, ret, history>>

\* pgfr_mtree_set_leaf, lines 94-113: the bulk UPDATE of the overlay
SetLeafFlush(self) ==
    /\ pc[self] = "flush"
    /\ store' = bulk_update(store, to_update[self])
    /\ pc' = [pc EXCEPT ![self] = "idle"]
    /\ ret' = [ret EXCEPT ![self].status = "ok",
                          ![self].written = DOMAIN to_update[self]]
    /\ UNCHANGED <<start_index, end_index, to_update, history>>

\* the calls one backend can make and the steps it can take
Backend(self) ==
    \/ \E depth \in Depths : InitTree(self, depth)
    \/ \E depth \in Depths : InitTreeFail(self, depth)
    \/ GetRoot(self)
    \/ \E depth \in Depths : \E p \in 0 .. Pow2(depth) :
           GetProof(self, depth, p)
    \/ \E depth \in Depths : \E p \in 0 .. Pow2(depth) :
       \E v \in LeafValues : SetLeafWrite(self, depth, p, v)
    \/ GetHashesLevel(self)
    \/ GetHashesPanic(self)
    \/ GetHashesDone(self)
    \/ SetLeafFlush(self)

\* calls are serialized: a single backend, each call run to completion
Next == Backend(1) /\ UNCHANGED aux_vars

Spec == Init /\ [][Next]_vars

TypeOK ==
    /\ pc \in [Procs -> {"idle", "get_hashes", "flush"}]
    /\ tree_depth \in -1 .. MaxDepth
    /\ ncalls \in 0 .. MaxCalls
    /\ aligned \in BOOLEAN

\* the scenario of the tests of merkle_tree.rs: every call is made with
\* depth TestDepth, positions are in range
CallsDepth3 ==
    \/ InitTree(1, TestDepth)
    \/ InitTreeFail(1, TestDepth)
    \/ GetRoot(1)
    \/ \E p \in 0 .. (Pow2(TestDepth) - 1) : GetProof(1, TestDepth, p)
    \/ \E p \in 0 .. (Pow2(TestDepth) - 1) : \E v \in LeafValues :
           SetLeafWrite(1, TestDepth, p, v)
    \/ GetHashesLevel(1)
    \/ GetHashesPanic(1)
    \/ GetHashesDone(1)
    \/ SetLeafFlush(1)

NextDepth3 == CallsDepth3 /\ UNCHANGED aux_vars

SpecDepth3 == Init /\ [][NextDepth3]_vars

\* ------------------------------------------------------------ properties
\* no call is in progress
AllIdle == \A self \in Procs : pc[self] = "idle"

\* array index of leaf position p in a tree of depth D
LeafIndex(D, p) == Pow2(D) - 1 + p

\* the proper ancestors of node i
Ancestors(i) ==
    {a \in 0 .. i : \E k \in 1 .. (MaxDepth + TestDepth + 2) :
        /\ (i + 1) \div Pow2(k) >= 1
        /\ a = ((i + 1) \div Pow2(k)) - 1}

\* the nodes on the path from i to the root, both included
PathNodes(i) == {i} \cup Ancestors(i)

\* the other child of the parent of node n (n > 0)
Sibling(n) == IF n % 2 = 0 THEN n - 1 ELSE n + 1

\* the siblings of the nodes on the path from i to the root
PathSiblings(i) == {Sibling(n) : n \in PathNodes(i) \ {0}}

\* the value of every node of level L in an all-default tree of depth D
RECURSIVE LevelValue(_, _)
LevelValue(L, D) ==
    IF L >= D
    THEN FrDefault
    ELSE poseidon_hash_(LevelValue(L + 1, D), LevelValue(L + 1, D))

\* full bottom-up recomputation of node i over the leaf vector lv
RECURSIVE RefNode(_, _, _)
RefNode(lv, D, i) ==
    IF i >= Pow2(D) - 1
    THEN lv[i - (Pow2(D) - 1)]
    ELSE poseidon_hash_(RefNode(lv, D, (2 * i) + 1),
                        RefNode(lv, D, (2 * i) + 2))

\* the verification contract: fold the entries k .. Len(proof) into v
RECURSIVE ProofFold(_, _, _)
ProofFold(v, proof, k) ==
    IF k > Len(proof)
    THEN v
    ELSE ProofFold(IF proof[k][1] = 0
                   THEN poseidon_hash_(v, proof[k][2])
                   ELSE poseidon_hash_(proof[k][2], v),
                   proof, k + 1)

\* C1: after initialize(D) and completed in-range set_leaf(D, p, v) calls
\* only, every internal node holds the hash of its two stored children.
InternalNodesAreHashes ==
    (AllIdle /\ tree_depth >= 0 /\ aligned) =>
        \A i \in 0 .. (Pow2(tree_depth) - 2) :
            store[i] = poseidon_hash_(store[(2 * i) + 1], store[(2 * i) + 2])

\* a second set_leaf has completed on a tree of depth >= 2 that now holds a
\* non-default leaf
WitnessInternalNodesAreHashes ==
    /\ AllIdle /\ aligned /\ tree_depth >= 2 /\ ncalls >= 2
    /\ ret[1].op = "set_leaf" /\ ret[1].status = "ok"
    /\ \E p \in DOMAIN leaves : leaves[p] # FrDefault

\* C2: folding get_proof(D, p) over the stored leaf value reconstructs the
\* value returned by get_root().
ProofReconstructsRoot ==
    LET r == ret[1]
    IN  (/\ r.op = "get_proof" /\ aligned
         /\ r.depth = tree_depth /\ r.pos < Pow2(r.depth)) =>
            /\ r.status = "ok"
            /\ pgfr_mtree_get_root(store).status = "ok"
            /\ pgfr_mtree_get_root(store).out =
                   <<ProofFold(store[LeafIndex(r.depth, r.pos)], r.out, 1)>>

\* a proof was produced on a tree of depth >= 2 after a leaf was set to a
\* non-default value
WitnessProofReconstructsRoot ==
    /\ ret[1].op = "get_proof" /\ ret[1].status = "ok" /\ aligned
    /\ ret[1].depth = tree_depth /\ ret[1].pos < Pow2(ret[1].depth)
    /\ tree_depth >= 2
    /\ \E p \in DOMAIN leaves : leaves[p] # FrDefault

\* C3: get_root() equals the root of a full bottom-up recomputation over
\* the current leaf vector.
RootMatchesReference ==
    LET r == ret[1]
    IN  (r.op = "get_root" /\ aligned /\ tree_depth >= 0) =>
            /\ r.status = "ok"
            /\ r.out = <<RefNode(leaves, tree_depth, 0)>>

\* get_root() ran after two leaves of a depth >= 2 tree were given
\* non-default values
WitnessRootMatchesReference ==
    /\ ret[1].op = "get_root" /\ ret[1].status = "ok" /\ aligned
    /\ tree_depth >= 2
    /\ \E p, q \in DOMAIN leaves :
           p # q /\ leaves[p] # FrDefault /\ leaves[q] # FrDefault

\* C4: initialize(D) on an empty store inserts each index 0 .. 2^(D+1)-2
\* once, every node of level L holds h_L, and get_root() returns h_0.
InitPopulatesLevels ==
    LET r == ret[1]
        D == r.depth
        last == Pow2(D + 1) - 2
    IN  (r.op = "init" /\ DOMAIN r.pre = {}) =>
            /\ r.status = "ok"
            /\ DOMAIN store = 0 .. last
            /\ Len(r.idx) = last + 1
            /\ {r.idx[k] : k \in 1 .. Len(r.idx)} = 0 .. last
            /\ \A L \in 0 .. D :
                   \A i \in (Pow2(L) - 1) .. (Pow2(L + 1) - 2) :
                       store[i] = LevelValue(L, D)
            /\ pgfr_mtree_get_root(store) =
                   [status |-> "ok", out |-> <<LevelValue(0, D)>>]

\* an init of depth >= 2 has just populated the empty store
WitnessInitPopulatesLevels ==
    /\ ret[1].op = "init" /\ ret[1].status = "ok"
    /\ DOMAIN ret[1].pre = {} /\ ret[1].depth >= 2
    /\ tree_depth = ret[1].depth

\* C5: on a fully initialized tree the k-th entry of get_proof(D, p) is
\* (1, store[n-1]) when the k-th path node n is even and (0, store[n+1])
\* when it is odd, so the direction bits are the binary digits of p, least
\* significant first.
ProofEntriesFollowParity ==
    LET r == ret[1]
        D == r.depth
        p == r.pos
    IN  (r.op = "get_proof" /\ D = tree_depth /\ p < Pow2(D)) =>
            /\ r.status = "ok"
            /\ Len(r.out) = D
            /\ \A k \in 1 .. D :
                   LET n == Pow2(D - k + 1) - 1 + (p \div Pow2(k - 1))
                   IN  /\ r.out[k] = IF n % 2 = 0
                                     THEN <<1, store[n - 1]>>
                                     ELSE <<0, store[n + 1]>>
                       /\ r.out[k][1] = (p \div Pow2(k - 1)) % 2

\* a proof was produced for a position whose binary digits are not all
\* equal, on a tree of depth >= 2 holding a non-default leaf
WitnessProofEntriesFollowParity ==
    /\ ret[1].op = "get_proof" /\ ret[1].status = "ok"
    /\ ret[1].depth = tree_depth /\ tree_depth >= 2
    /\ ret[1].pos = 1
    /\ \E p \in DOMAIN leaves : leaves[p] # FrDefault

\* the tree holds exactly what init(TestDepth) inserted
FreshTestTree ==
    /\ tree_depth = TestDepth
    /\ store = insert_rows(EmptyStore, init_rows(level_hashes(TestDepth), 0))

\* C6 as stated: on a fresh depth-3 tree get_proof(3, 0) is
\* [(1, 0), (0, level1_hash), (0, level2_hash)].
FreshProofOfLeaf0FirstBitOne ==
    LET r == ret[1]
    IN  (/\ r.op = "get_proof" /\ r.depth = TestDepth /\ r.pos = 0
         /\ FreshTestTree) =>
            /\ r.status = "ok"
            /\ r.out = << <<1, FrDefault>>,
                          <<0, LevelValue(TestDepth - 1, TestDepth)>>,
                          <<0, LevelValue(TestDepth - 2, TestDepth)>> >>

\* C6 amended: on a fresh depth-3 tree get_proof(3, 0) is
\* [(0, 0), (0, level1_hash), (0, level2_hash)]: every direction bit is 0,
\* the first sibling is zero, the second and third are the default hashes
\* one and two levels above the leaves.
FreshProofOfLeaf0 ==
    LET r == ret[1]
    IN  (/\ r.op = "get_proof" /\ r.depth = TestDepth /\ r.pos = 0
         /\ FreshTestTree) =>
            /\ r.status = "ok"
            /\ r.out = << <<0, FrDefault>>,
                          <<0, LevelValue(TestDepth - 1, TestDepth)>>,
                          <<0, LevelValue(TestDepth - 2, TestDepth)>> >>

\* get_proof(3, 0) has run on the fresh depth-3 tree
WitnessFreshProofOfLeaf0 ==
    /\ ret[1].op = "get_proof" /\ ret[1].depth = TestDepth
    /\ ret[1].pos = 0 /\ ret[1].status = "ok"
    /\ FreshTestTree

\* C7: get_proof(D, p) on a fully initialized depth-D tree has exactly D
\* entries, the k-th being the sibling of the k-th node of the leaf-to-root
\* path; no sibling is the root or lies on the path.
ProofHasDepthEntries ==
    LET r == ret[1]
        D == r.depth
        leaf == LeafIndex(D, r.pos)
    IN  (r.op = "get_proof" /\ D = tree_depth /\ r.pos < Pow2(D)) =>
            /\ r.status = "ok"
            /\ Len(r.out) = D
            /\ Len(r.idx) = D
            /\ \A k \in 1 .. D :
                   /\ r.idx[k] # 0
                   /\ r.idx[k] \notin PathNodes(leaf)
                   /\ r.idx[k] \in PathSiblings(leaf)
                   /\ r.idx[k] \in
                          (Pow2(D - k + 1) - 1) .. (Pow2(D - k + 2) - 2)
                   /\ r.out[k][2] = store[r.idx[k]]

\* a proof with at least two entries was produced
WitnessProofHasDepthEntries ==
    /\ ret[1].op = "get_proof" /\ ret[1].status = "ok"
    /\ ret[1].depth = tree_depth /\ tree_depth >= 2
    /\ ret[1].pos < Pow2(tree_depth)
    /\ Len(ret[1].out) = tree_depth

\* C8: get_root() returns None, not a failure, when the store has no row
\* at index 0, and the value stored at index 0 once the tree is initialized.
GetRootNoneWhenAbsent ==
    LET r == ret[1]
    IN  r.op = "get_root" =>
            IF HasRow(store, 0)
            THEN r.status = "ok" /\ r.out = <<store[0]>>
            ELSE r.status = "ok" /\ r.out = << >>

\* C9: a completed in-range set_leaf(D, p, v) bulk-writes exactly the D
\* proper ancestors of the leaf and changes the store at no index other than
\* the leaf and those ancestors.
SetLeafFrame ==
    LET r == ret[1]
        leaf == LeafIndex(r.depth, r.pos)
    IN  (/\ r.op = "set_leaf" /\ r.status = "ok" /\ AllIdle
         /\ r.pos < Pow2(r.depth)) =>
            /\ r.written = Ancestors(leaf)
            /\ Cardinality(r.written) = r.depth
            /\ DOMAIN store = DOMAIN r.pre
            /\ \A i \in DOMAIN store :
                   i \notin PathNodes(leaf) => store[i] = r.pre[i]

\* a second set_leaf has completed on a tree of depth >= 2: it changed the
\* root, and a leaf off its path holds a non-default value
WitnessSetLeafFrame ==
    LET r == ret[1]
        leaf == LeafIndex(r.depth, r.pos)
    IN  /\ r.op = "set_leaf" /\ r.status = "ok" /\ AllIdle
        /\ r.depth = tree_depth /\ tree_depth >= 2
        /\ r.pos < Pow2(r.depth)
        /\ ncalls >= 2
        /\ store[0] # r.pre[0]
        /\ \E i \in (Pow2(tree_depth) - 1) .. (Pow2(tree_depth + 1) - 2) :
               i # leaf /\ store[i] # FrDefault

\* C10: when a node needed by get_proof or by the ancestor recomputation
\* of set_leaf has no row, the call ends in a hard failure without a result;
\* the missing node is never given a default value.
MissingNodeFails ==
    LET r == ret[1]
        leaf == LeafIndex(r.depth, r.pos)
    IN  /\ (/\ r.op = "get_proof"
            /\ \E i \in PathSiblings(leaf) : ~HasRow(store, i)) =>
               r.status = "panic" /\ r.out = << >>
        /\ (/\ r.op = "set_leaf" /\ pc[1] = "idle" /\ leaf # 0
            /\ \E i \in PathSiblings(leaf) \cup {leaf} : ~HasRow(r.pre, i)) =>
               r.status = "panic" /\ r.written = {} /\ store = r.pre

\* a set_leaf one level deeper than the populated tree has failed on the
\* missing children of its first parent
WitnessMissingNodeFails ==
    /\ ret[1].op = "set_leaf" /\ ret[1].status = "panic" /\ pc[1] = "idle"
    /\ tree_depth >= 1 /\ ret[1].depth = tree_depth + 1
    /\ ret[1].pos < Pow2(ret[1].depth)

\* ------------------------------------------------ failures of the store
\* the children of the parents start_parent .. end_parent
ChildrenOf(start_parent, end_parent) ==
    UNION {{first_child(parent), first_child(parent) + 1} :
              parent \in start_parent .. end_parent}

\* mtree_get_hashes: client.select returns Err for a child that is not in
\* the overlay; the first unwrap panics and the call ends there, without
\* undoing the leaf UPDATE
GetHashesSpiError(self) ==
    LET start_parent == node_parent(start_index[self])
        end_parent == node_parent(end_index[self])
    IN  /\ pc[self] = "get_hashes"
        /\ start_parent # None /\ end_parent # None
        /\ \E child \in ChildrenOf(start_parent, end_parent) :
               child \notin DOMAIN to_update[self]
        /\ pc' = [pc EXCEPT ![self] = "idle"]
        /\ ret' = [ret EXCEPT ![self].status = "panic"]
        /\ aligned' = FALSE
        /\ UNCHANGED <<store, start_index, end_index, to_update,
                       tree_depth, leaves, ncalls>>

\* pgfr_mtree_set_leaf: the bulk UPDATE fails and `?` returns the error;
\* no ancestor is written
SetLeafFlushError(self) ==
    /\ pc[self] = "flush"
    /\ pc' = [pc EXCEPT ![self] = "idle"]
    /\ ret' = [ret EXCEPT ![self].status = "error"]
    /\ aligned' = FALSE
    /\ UNCHANGED <<store, start_index, end_index, to_update,
                   tree_depth, leaves, ncalls>>

\* set_leaf calls at the depth of the tree, over a store whose reads and
\* bulk write can fail
CallsFault ==
    \/ \E depth \in Depths : InitTree(1, depth)
    \/ GetRoot(1)
    \/ /\ tree_depth >= 0
       /\ \E p \in 0 .. Pow2(tree_depth) : \E v \in LeafValues :
              SetLeafWrite(1, tree_depth, p, v)
    \/ GetHashesLevel(1)
    \/ GetHashesPanic(1)
    \/ GetHashesDone(1)
    \/ SetLeafFlush(1)
    \/ GetHashesSpiError(1)
    \/ SetLeafFlushError(1)

NextFault == CallsFault /\ UNCHANGED aux_vars

SpecFault == Init /\ [][NextFault]_vars

\* C11: from the leaf write until the bulk write, and after a failure in
\* between, the store differs from its pre-call state at the leaf index
\* only: the leaf holds the new value and every ancestor its old one.
LeafFirstAncestorsAtFlush ==
    LET r == ret[1]
        leaf == LeafIndex(r.depth, r.pos)
    IN  (/\ r.op = "set_leaf"
         /\ \/ pc[1] \in {"get_hashes", "flush"}
            \/ r.status \in {"panic", "error"}) =>
            /\ DOMAIN store = DOMAIN r.pre
            /\ \A i \in DOMAIN store :
                   store[i] = IF i = leaf THEN r.value ELSE r.pre[i]

\* a read failed above the first level of a depth >= 2 tree: the leaf has
\* its new value and the call stopped with part of the overlay computed
WitnessLeafFirstAncestorsAtFlush ==
    LET r == ret[1]
        leaf == LeafIndex(r.depth, r.pos)
    IN  /\ r.op = "set_leaf" /\ r.status = "panic" /\ pc[1] = "idle"
        /\ r.depth >= 2 /\ HasRow(r.pre, leaf)
        /\ store[leaf] = r.value /\ r.pre[leaf] # r.value
        /\ DOMAIN to_update[1] # {}
        /\ store[0] = r.pre[0]

\* ------------------------------------------------------- Poseidon::hash
MaxInputs == 10

MinArity == 2
MaxArity == 9

\* ROUND_PARAMS: (t, RF, RP, skip_matrices)
ROUND_PARAMS ==
    << <<2, 8, 56, 0>>, <<3, 8, 57, 0>>, <<4, 8, 56, 0>>, <<5, 8, 60, 0>>,
       <<6, 8, 60, 0>>, <<7, 8, 63, 0>>, <<8, 8, 64, 0>>, <<9, 8, 63, 0>> >>

\* find_poseidon_ark_and_mds: the sizes of what it returns; ark gets rate
\* elements per round and mds is rate x rate
find_poseidon_ark_and_mds(rate, full_rounds, partial_rounds) ==
    [c_len |-> (full_rounds + partial_rounds) * rate, m_dim |-> rate]

\* one iteration of the loop of Poseidon::from
RoundParameters(param) ==
    LET gen == find_poseidon_ark_and_mds(param[1], param[2], param[3])
    IN  [t |-> param[1], n_rounds_f |-> param[2], n_rounds_p |-> param[3],
         skip_matrices |-> param[4], c_len |-> gen.c_len, m_dim |-> gen.m_dim]

Poseidon_from(poseidon_params) ==
    [k \in 1 .. Len(poseidon_params) |-> RoundParameters(poseidon_params[k])]

\* iter().position(|el| el.t == t), 0-based, None when no element matches
position_t(round_params, t) ==
    LET hits == {k \in 1 .. Len(round_params) : round_params[k].t = t}
    IN  IF hits = {} THEN None
        ELSE (CHOOSE k \in hits : \A h \in hits : k <= h) - 1

\* the rounds index c up to (RF + RP - 1) * t + t - 1 and m up to t - 1 in
\* both directions; an index out of bounds panics
rounds_in_bounds(rp, t) ==
    /\ (rp.n_rounds_f + rp.n_rounds_p - 1) * rp.t + t - 1 < rp.c_len
    /\ t <= rp.m_dim

\* mutant of Poseidon_hash: the parameters are looked up by input length
Poseidon_hash_by_len(round_params, inp) ==
    LET t == Len(inp)
        param_index == position_t(round_params, t)
    IN  IF inp = << >> \/ param_index = None
        THEN [status |-> "Err", out |-> << >>]
        ELSE IF rounds_in_bounds(round_params[param_index + 1], t)
             THEN [status |-> "Ok", out |-> inp]
             ELSE [status |-> "panic", out |-> << >>]

\* Poseidon::hash; the digest of an input is the term made of the input
Poseidon_hash(round_params, inp) ==
    LET t == Len(inp) + 1
        param_index == position_t(round_params, t)
    IN  IF inp = << >> \/ param_index = None
        THEN [status |-> "Err", out |-> << >>]
        ELSE IF rounds_in_bounds(round_params[param_index + 1], t)
             THEN [status |-> "Ok", out |-> inp]
             ELSE [status |-> "panic", out |-> << >>]

HashInputs == UNION {[1 .. n -> LeafValues] : n \in 0 .. MaxInputs}

HashInit ==
    /\ TreeInit
    /\ snap = NoSnap /\ overlapped = FALSE /\ meter = NoMeter
    /\ lazy = LazyUnforced /\ codec = NoCodec /\ GenIdle
    /\ hash_call \in {[inp |-> inp, status |-> "none", out |-> << >>] :
                         inp \in HashInputs}

\* hash returns Err(String) to its caller
HashErr ==
    LET res == Poseidon_hash(Poseidon_from(ROUND_PARAMS), hash_call.inp)
    IN  /\ hash_call.status = "none"
        /\ res.status = "Err"
        /\ hash_call' = [hash_call EXCEPT !.status = res.status,
                                          !.out = res.out]
        /\ UNCHANGED <<tree_vars, snap, overlapped, meter, lazy, codec,
                   gen_vars>>

\* hash runs its rounds
HashRounds ==
    LET res == Poseidon_hash(Poseidon_from(ROUND_PARAMS), hash_call.inp)
    IN  /\ hash_call.status = "none"
        /\ res.status # "Err"
        /\ hash_call' = [hash_call EXCEPT !.status = res.status,
                                          !.out = res.out]
        /\ UNCHANGED <<tree_vars, snap, overlapped, meter, lazy, codec,
                   gen_vars>>

NextHash == HashErr \/ HashRounds

SpecHash == HashInit /\ [][NextHash]_vars

\* C12: hash returns the parameter-not-found error, and does not panic,
\* exactly when the input is empty or its length plus one is not an arity
\* in MinArity .. MaxArity; for lengths 1 .. 8 it returns a field element.
HashErrIffNoParameters ==
    LET n == Len(hash_call.inp)
    IN  hash_call.status # "none" =>
            /\ hash_call.status = "Err" <=>
                   (n = 0 \/ n + 1 \notin MinArity .. MaxArity)
            /\ n \in MinArity - 1 .. MaxArity - 1 =>
                   /\ hash_call.status = "Ok"
                   /\ hash_call.out = hash_call.inp
            /\ hash_call.status # "panic"

\* the empty input and an input of nine elements got the error, and an
\* input of eight elements got a digest
WitnessHashErrIffNoParameters ==
    /\ hash_call.status = "Err"
    /\ Len(hash_call.inp) = MaxArity

WitnessHashEmptyInput ==
    /\ hash_call.status = "Err"
    /\ hash_call.inp = << >>

WitnessHashLongestInput ==
    /\ hash_call.status = "Ok"
    /\ Len(hash_call.inp) = MaxArity - 1

\* ------------------------------------------------- set_leaf run twice
\* pgfr_mtree_set_leaf called again with the arguments of the call that
\* has just returned Ok; snap keeps the table as the first call left it
SetLeafAgain(self) ==
    /\ ret[self].op = "set_leaf" /\ ret[self].status = "ok"
    /\ SetLeafWrite(self, ret[self].depth, ret[self].pos, ret[self].value)
    /\ snap' = [repeat |-> TRUE, store |-> store]

\* the start of any other call
StartsIdem ==
    /\ \/ \E depth \in Depths : InitTree(1, depth)
       \/ \E depth \in Depths : \E p \in 0 .. Pow2(depth) :
          \E v \in LeafValues : SetLeafWrite(1, depth, p, v)
    /\ snap' = NoSnap

StepsIdem ==
    /\ \/ GetHashesLevel(1)
       \/ GetHashesPanic(1)
       \/ GetHashesDone(1)
       \/ SetLeafFlush(1)
    /\ UNCHANGED snap

NextIdem ==
    /\ StartsIdem \/ StepsIdem \/ SetLeafAgain(1)
    /\ UNCHANGED <<overlapped, meter, hash_call, lazy, codec,
                   gen_vars>>

SpecIdem == Init /\ [][NextIdem]_vars

\* C13: when set_leaf(D, p, v) has returned and is run a second time with
\* the same arguments, the second call returns with every stored node
\* equal to its value after the first call.
SetLeafIdempotent ==
    (snap.repeat /\ pc[1] = "idle") =>
        /\ ret[1].status = "ok"
        /\ store = snap.store

\* the second of two set_leaf calls has returned, at an in-range position
\* of a tree of depth >= 2, with a value that is not the default of init
WitnessSetLeafIdempotent ==
    /\ snap.repeat /\ pc[1] = "idle" /\ ret[1].status = "ok"
    /\ ret[1].depth = tree_depth /\ tree_depth >= 2
    /\ ret[1].pos < Pow2(tree_depth)
    /\ ret[1].value # FrDefault
    /\ store[LeafIndex(ret[1].depth, ret[1].pos)] = ret[1].value
    /\ store[0] # LevelValue(0, tree_depth)

\* ------------------------------------------- two backends, no locking
\* a backend enters pgfr_mtree_set_leaf, once, for a leaf of the tree
\* that is not the leaf of the other backend's call
SetLeafConc(self, index_in_mtree, leaf_value) ==
    /\ tree_depth >= 1
    /\ ret[self].op # "set_leaf"
    /\ \A other \in Procs \ {self} :
           ret[other].op = "set_leaf" => ret[other].pos # index_in_mtree
    /\ SetLeafWrite(self, tree_depth, index_in_mtree, leaf_value)
    /\ overlapped' = (overlapped \/ \E other \in Procs \ {self} :
                                        pc[other] # "idle")

CallsConc ==
    \/ /\ tree_depth = -1
       /\ \E depth \in Depths : InitTree(1, depth)
       /\ UNCHANGED overlapped
    \/ /\ tree_depth >= 1
       /\ \E self \in Procs : \E p \in 0 .. (Pow2(tree_depth) - 1) :
          \E v \in LeafValues : SetLeafConc(self, p, v)
    \/ \E self \in Procs : GetHashesLevel(self) /\ UNCHANGED overlapped
    \/ \E self \in Procs : GetHashesDone(self) /\ UNCHANGED overlapped
    \/ \E self \in Procs : SetLeafFlush(self) /\ UNCHANGED overlapped

NextConc == CallsConc /\ UNCHANGED <<snap, meter, hash_call, lazy, codec,
                   gen_vars>>

SpecConc == Init /\ [][NextConc]_vars

\* the proper ancestors that two nodes have in common
SharedAncestors(i, j) == Ancestors(i) \cap Ancestors(j)

\* node i holds the hash of its two stored children
NodeIsHashOfChildren(i) ==
    store[i] = poseidon_hash_(store[first_child(i)],
                              store[first_child(i) + 1])

\* C14: two set_leaf calls on different leaves of a tree share an
\* ancestor, and as long as every call has run to completion before the
\* next one started, every internal node is the hash of its two stored
\* children once the calls have returned.
SerialCallsKeepSharedAncestors ==
    /\ tree_depth >= 1 =>
           \A p, q \in 0 .. (Pow2(tree_depth) - 1) :
               p # q => SharedAncestors(LeafIndex(tree_depth, p),
                                        LeafIndex(tree_depth, q)) # {}
    /\ (AllIdle /\ tree_depth >= 1 /\ ~overlapped) =>
           \A i \in 0 .. (Pow2(tree_depth) - 2) : NodeIsHashOfChildren(i)

\* two calls on different leaves have interleaved and both have returned:
\* an ancestor they share does not hold the hash of its stored children
WitnessSerialCallsKeepSharedAncestors ==
    /\ AllIdle /\ overlapped /\ tree_depth >= 1
    /\ \A self \in Procs : ret[self].op = "set_leaf" /\ ret[self].status = "ok"
    /\ ret[1].pos # ret[2].pos
    /\ \E i \in SharedAncestors(LeafIndex(tree_depth, ret[1].pos),
                                LeafIndex(tree_depth, ret[2].pos)) :
           ~NodeIsHashOfChildren(i)

\* two calls on different leaves have run one after the other
WitnessSerialCalls ==
    /\ AllIdle /\ ~overlapped /\ tree_depth >= 2
    /\ \A self \in Procs : ret[self].op = "set_leaf" /\ ret[self].status = "ok"
    /\ ret[1].pos # ret[2].pos
    /\ ret[1].value # FrDefault /\ ret[2].value # FrDefault

\* ------------------------------------------ the POSEIDON Lazy static
\* Each thread of Procs calls poseidon_hash_, which dereferences POSEIDON.
\* lazy.state is the state of the cell, lazy.read_params the vector that
\* Poseidon::from is filling, lazy.value the content of the cell,
\* lazy.seen[self] what the dereference gave to thread self.

\* mutant of LazyForce: a thread that finds the cell not yet complete runs
\* the initializer itself
LazyForce_unsynchronized(self) ==
    /\ lazy.tpc[self] = "start"
    /\ lazy.nhash[self] < MaxCalls
    /\ \/ /\ lazy.state = "done"
          /\ lazy' = [lazy EXCEPT !.tpc[self] = "got",
                                  !.seen[self] = lazy.value]
       \/ /\ lazy.state # "done"
          /\ lazy' = [lazy EXCEPT !.state = "running",
                                  !.tpc[self] = "init",
                                  !.read_params = << >>,
                                  !.nderive = @ + 1]
    /\ UNCHANGED <<tree_vars, snap, overlapped, meter, hash_call, codec,
                   gen_vars>>

\* Lazy::force on entry of poseidon_hash_: a complete cell is read, an
\* empty cell is claimed by exactly one thread, which runs the closure
LazyForce(self) ==
    /\ lazy.tpc[self] = "start"
    /\ lazy.nhash[self] < MaxCalls
    /\ \/ /\ lazy.state = "done"
          /\ lazy' = [lazy EXCEPT !.tpc[self] = "got",
                                  !.seen[self] = lazy.value]
       \/ /\ lazy.state = "uninit"
          /\ lazy' = [lazy EXCEPT !.state = "running",
                                  !.tpc[self] = "init",
                                  !.read_params = << >>,
                                  !.nderive = @ + 1]
    /\ UNCHANGED <<tree_vars, snap, overlapped, meter, hash_call, codec,
                   gen_vars>>

\* Lazy::force while another thread runs the closure: the thread parks
LazyWait(self) ==
    /\ lazy.tpc[self] = "start"
    /\ lazy.nhash[self] < MaxCalls
    /\ lazy.state = "running"
    /\ lazy' = [lazy EXCEPT !.tpc[self] = "wait", !.waited[self] = TRUE]
    /\ UNCHANGED <<tree_vars, snap, overlapped, meter, hash_call, codec,
                   gen_vars>>

\* the parked thread is woken once the cell is complete
LazyWake(self) ==
    /\ lazy.tpc[self] = "wait"
    /\ lazy.state = "done"
    /\ lazy' = [lazy EXCEPT !.tpc[self] = "got", !.seen[self] = lazy.value]
    /\ UNCHANGED <<tree_vars, snap, overlapped, meter, hash_call, codec,
                   gen_vars>>

\* Poseidon::from: one iteration of the loop over poseidon_params
FromPush(self) ==
    /\ lazy.tpc[self] = "init"
    /\ Len(lazy.read_params) < Len(ROUND_PARAMS)
    /\ lazy' = [lazy EXCEPT !.read_params =
                   Append(@, RoundParameters(
                                 ROUND_PARAMS[Len(lazy.read_params) + 1]))]
    /\ UNCHANGED <<tree_vars, snap, overlapped, meter, hash_call, codec,
                   gen_vars>>

\* Poseidon::from returns and the cell is completed with its result
FromReturn(self) ==
    /\ lazy.tpc[self] = "init"
    /\ Len(lazy.read_params) = Len(ROUND_PARAMS)
    /\ lazy' = [lazy EXCEPT !.state = "done",
                            !.value = lazy.read_params,
                            !.tpc[self] = "got",
                            !.seen[self] = lazy.read_params]
    /\ UNCHANGED <<tree_vars, snap, overlapped, meter, hash_call, codec,
                   gen_vars>>

\* poseidon_hash_: POSEIDON.hash(input) on the parameters the thread got
LazyHash(self, input) ==
    LET res == Poseidon_hash(lazy.seen[self], input)
    IN  /\ lazy.tpc[self] = "got"
        /\ lazy' = [lazy EXCEPT !.tpc[self] = "start",
                                !.nhash[self] = @ + 1,
                                !.out[self] = [inp |-> input,
                                               status |-> res.status,
                                               out |-> res.out]]
        /\ UNCHANGED <<tree_vars, snap, overlapped, meter, hash_call, codec,
                   gen_vars>>

\* the inputs the tree code gives to poseidon_hash_: a pair of values
PairInputs == [1 .. 2 -> LeafValues]

NextLazy ==
    \E self \in Procs :
        \/ LazyForce(self)
        \/ LazyWait(self)
        \/ LazyWake(self)
        \/ FromPush(self)
        \/ FromReturn(self)
        \/ \E input \in PairInputs : LazyHash(self, input)

SpecLazy == Init /\ [][NextLazy]_vars

\* C15: the derivation of the parameter sets starts at most once, a
\* thread that got the cache sees all eight sets, and once the cell is
\* complete its content does not change.
CachePopulatedOnce ==
    [][/\ lazy'.nderive <= 1
       /\ \A self \in Procs :
              lazy'.tpc[self] = "got" =>
                  lazy'.seen[self] = Poseidon_from(ROUND_PARAMS)
       /\ lazy.state = "done" =>
              lazy'.state = "done" /\ lazy'.value = lazy.value]_vars

\* both threads made their first call at the same time: one derived the
\* parameters while the other waited, and both have hashed with them
WitnessCachePopulatedOnce ==
    /\ lazy.state = "done" /\ lazy.nderive = 1
    /\ \E self \in Procs : lazy.waited[self]
    /\ \A self \in Procs :
           /\ lazy.nhash[self] >= 1
           /\ lazy.out[self].status = "Ok"
           /\ lazy.seen[self] = lazy.value
    /\ Len(lazy.value) = Len(ROUND_PARAMS)

\* --------------------------------------------------- the bytea casts
MaxSlack == 1

EncLen == 32
ByteMax == 255

\* Fr::MODULUS of ark_bn254, least significant byte first
ModulusLE ==
    <<1, 0, 0, 240, 147, 245, 225, 67, 145, 112, 185, 121, 72, 232, 51, 40,
      93, 88, 129, 129, 182, 69, 80, 184, 41, 160, 49, 225, 114, 78, 100, 48>>

\* the bytes k, k - 1, .. 1 of the input are below those of the modulus
RECURSIVE below_modulus(_, _)
below_modulus(bytes, k) ==
    IF k = 0 THEN FALSE
    ELSE IF bytes[k] < ModulusLE[k] THEN TRUE
    ELSE IF bytes[k] > ModulusLE[k] THEN FALSE
    ELSE below_modulus(bytes, k - 1)

\* a field element is written as its base-256 numeral, most significant
\* digit first and without leading zeros: 0 is <<0>>, 42 is <<42>>
RECURSIVE strip_zeros(_)
strip_zeros(digits) ==
    IF Len(digits) > 1 /\ Head(digits) = 0
    THEN strip_zeros(Tail(digits))
    ELSE digits

from_le_bytes(bytes) ==
    strip_zeros([k \in 1 .. Len(bytes) |-> bytes[Len(bytes) + 1 - k]])

\* Fr::deserialize_compressed: reads EncLen bytes of the slice, whatever
\* follows them is not looked at, and rejects a value >= MODULUS
deserialize_compressed(input) ==
    IF Len(input) < EncLen
    THEN [status |-> "error", out |-> << >>]
    ELSE LET bytes == SubSeq(input, 1, EncLen)
         IN  IF below_modulus(bytes, EncLen)
             THEN [status |-> "ok", out |-> from_le_bytes(bytes)]
             ELSE [status |-> "error", out |-> << >>]

\* mutant of bytea_to_pgfr: the input goes to the deserializer unchecked
bytea_to_pgfr_unchecked(input) ==
    deserialize_compressed(input)

\* bytea_to_pgfr: ereport!(ERROR) ends the call
bytea_to_pgfr(input) ==
    IF Len(input) # EncLen
    THEN [status |-> "error", out |-> << >>]
    ELSE deserialize_compressed(input)

\* pgfr_to_bytea: serialize_compressed writes EncLen bytes, least
\* significant first
pgfr_to_bytea(fr) ==
    [k \in 1 .. EncLen |-> IF k <= Len(fr) THEN fr[Len(fr) + 1 - k] ELSE 0]

\* the inputs of the cast: the encodings of MODULUS and of 0 with one byte
\* replaced, cut short or extended by up to MaxSlack bytes, and no bytes
ZeroLE == [k \in 1 .. EncLen |-> 0]

ByteProbes(b) == {0, b - 1, b, b + 1, ByteMax} \cap (0 .. ByteMax)

Bytes32 ==
    {[base EXCEPT ![k] = b] :
        base \in {ModulusLE, ZeroLE}, k \in 1 .. EncLen,
        b \in UNION {ByteProbes(ModulusLE[j]) : j \in 1 .. EncLen}}

CastInputs ==
    {<< >>}
    \cup {SubSeq(bytes, 1, EncLen - d) : bytes \in Bytes32, d \in 0 .. MaxSlack}
    \cup {bytes \o [k \in 1 .. d |-> 0] : bytes \in Bytes32, d \in 1 .. MaxSlack}

CodecInit ==
    /\ TreeInit
    /\ snap = NoSnap /\ overlapped = FALSE /\ meter = NoMeter
    /\ hash_call = NoHashCall /\ lazy = LazyUnforced /\ GenIdle
    /\ codec \in {[input |-> input, status |-> "none", out |-> << >>] :
                     input \in CastInputs}

\* the cast raises ERROR
CastError ==
    LET res == bytea_to_pgfr(codec.input)
    IN  /\ codec.status = "none"
        /\ res.status = "error"
        /\ codec' = [codec EXCEPT !.status = res.status, !.out = res.out]
        /\ UNCHANGED <<tree_vars, snap, overlapped, meter, hash_call, lazy,
                   gen_vars>>

\* the cast returns a PgFr
CastOk ==
    LET res == bytea_to_pgfr(codec.input)
    IN  /\ codec.status = "none"
        /\ res.status = "ok"
        /\ codec' = [codec EXCEPT !.status = res.status, !.out = res.out]
        /\ UNCHANGED <<tree_vars, snap, overlapped, meter, hash_call, lazy,
                   gen_vars>>

NextCodec == CastError \/ CastOk

SpecCodec == CodecInit /\ [][NextCodec]_vars

\* the input is the EncLen-byte encoding of a value below MODULUS: some
\* byte is smaller than the byte of MODULUS and all higher bytes are equal
CanonicalEncoding(input) ==
    /\ Len(input) = EncLen
    /\ \E k \in 1 .. EncLen :
           /\ input[k] < ModulusLE[k]
           /\ \A j \in (k + 1) .. EncLen : input[j] = ModulusLE[j]

\* C18: bytea_to_pgfr ends with an error for every input that is not
\* EncLen bytes long and for every EncLen-byte input that is not the
\* encoding of a value below the modulus; otherwise it returns the field
\* element whose encoding is the input.
CastRejectsMalformed ==
    codec.status # "none" =>
        /\ codec.status = "error" <=> ~CanonicalEncoding(codec.input)
        /\ codec.status = "ok" => pgfr_to_bytea(codec.out) = codec.input

\* an input of 33 bytes whose first 32 bytes encode a field element was
\* rejected
WitnessCastRejectsMalformed ==
    /\ codec.status = "error"
    /\ Len(codec.input) = EncLen + 1
    /\ CanonicalEncoding(SubSeq(codec.input, 1, EncLen))

\* the encoding of MODULUS itself was rejected
WitnessCastRejectsModulus ==
    /\ codec.status = "error"
    /\ codec.input = ModulusLE

\* the encoding of MODULUS - 1 was accepted
WitnessCastAcceptsLargest ==
    /\ codec.status = "ok"
    /\ codec.input = [ModulusLE EXCEPT ![1] = 0]

\* ------------------------------------- one leaf: range against stepwise
\* the walk from node i, whose new value is v, to the root: at each step
\* the parent gets the hash of v and the stored sibling, in left/right order
RECURSIVE StepwiseOverlay(_, _, _)
StepwiseOverlay(st, i, v) ==
    IF i = 0
    THEN EmptyOverlay
    ELSE LET h == IF i % 2 = 1
                  THEN poseidon_hash_(v, st[i + 1])
                  ELSE poseidon_hash_(st[i - 1], v)
         IN  (node_parent(i) :> h) @@ StepwiseOverlay(st, node_parent(i), h)

\* C19: when mtree_get_hashes(leaf_index, leaf_index) has returned inside
\* set_leaf, the overlay it filled equals, index for index and value for
\* value, the result of the step by step walk from the leaf to the root.
RangeEqualsStepwise ==
    (pc[1] = "flush" /\ ret[1].op = "set_leaf") =>
        to_update[1] = StepwiseOverlay(
                           store, LeafIndex(ret[1].depth, ret[1].pos),
                           ret[1].value)

\* the overlay of a non-default right leaf of a depth >= 2 tree whose left
\* sibling is not the default either
WitnessRangeEqualsStepwise ==
    LET leaf == LeafIndex(ret[1].depth, ret[1].pos)
    IN  /\ pc[1] = "flush" /\ ret[1].op = "set_leaf"
        /\ ret[1].depth = tree_depth /\ tree_depth >= 2
        /\ ret[1].pos < Pow2(tree_depth) /\ ret[1].pos % 2 = 1
        /\ ret[1].value # FrDefault
        /\ store[leaf - 1] # FrDefault
        /\ Cardinality(DOMAIN to_update[1]) = tree_depth

\* ----------------------------------- what one recomputation level does
\* mutant of child_select: the SELECT is issued for every child
child_select_always(overlay, child) == TRUE

\* the else branch of `if to_update.contains_key(&child)`: the child is
\* read with a SELECT
child_select(overlay, child) == child \notin DOMAIN overlay

\* an event of the loop: a SELECT of node `at` that gave args[1], or the
\* poseidon_hash_ of args[1] and args[2] for node `at`
Event(ev, at, args) == [ev |-> ev, at |-> at, args |-> args]

\* the SELECT of one child, if it is made
select_events(st, overlay, child) ==
    IF child_select(overlay, child)
    THEN <<Event("select", child, <<select_value(st, child).v>>)>>
    ELSE << >>

\* mutant of level_events: the for loop runs from end_parent down
RECURSIVE level_events_descending(_, _, _, _)
level_events_descending(st, overlay, parent, end_parent) ==
    IF parent > end_parent
    THEN << >>
    ELSE LET left_child == first_child(end_parent)
             right_child == left_child + 1
             left_child_value == child_value(st, overlay, left_child).v
             right_child_value == child_value(st, overlay, right_child).v
         IN  select_events(st, overlay, left_child)
             \o select_events(st, overlay, right_child)
             \o <<Event("hash", end_parent,
                        <<left_child_value, right_child_value>>)>>
             \o level_events_descending(
                    st,
                    overlay_insert(overlay, end_parent,
                                   poseidon_hash_(left_child_value,
                                                  right_child_value)),
                    parent, end_parent - 1)

\* for parent in start_parent..=end_parent: the SELECTs and the hash of
\* each iteration, in the order the body makes them
RECURSIVE level_events(_, _, _, _)
level_events(st, overlay, parent, end_parent) ==
    IF parent > end_parent
    THEN << >>
    ELSE LET left_child == first_child(parent)
             right_child == left_child + 1
             left_child_value == child_value(st, overlay, left_child).v
             right_child_value == child_value(st, overlay, right_child).v
         IN  select_events(st, overlay, left_child)
             \o select_events(st, overlay, right_child)
             \o <<Event("hash", parent,
                        <<left_child_value, right_child_value>>)>>
             \o level_events(
                    st,
                    overlay_insert(overlay, parent,
                                   poseidon_hash_(left_child_value,
                                                  right_child_value)),
                    parent + 1, end_parent)

\* --------------------------------------- mtree_get_hashes over a range
\* a fully populated table of depth D over the leaf vector lv
FullStore(lv, D) == [i \in 0 .. (Pow2(D + 1) - 2) |-> RefNode(lv, D, i)]

\* the indices of level L, the root being level 0
LevelIndices(L) == (Pow2(L) - 1) .. (Pow2(L + 1) - 2)

\* mtree_get_hashes(client, start, end, &mut to_update) is entered with an
\* empty map and a range inside one level of a fully populated table
RangeInit ==
    /\ snap = NoSnap /\ overlapped = FALSE /\ meter = NoMeter
    /\ hash_call = NoHashCall /\ lazy = LazyUnforced /\ codec = NoCodec
    /\ GenIdle
    /\ \E D \in Depths \ {0} : \E lv \in [0 .. (Pow2(D) - 1) -> LeafValues] :
       \E L \in 0 .. D : \E s \in LevelIndices(L) : \E e \in LevelIndices(L) :
           /\ s <= e
           /\ store = FullStore(lv, D)
           /\ tree_depth = D
           /\ leaves = lv
           /\ pc = [self \in Procs |-> IF self = 1 THEN "get_hashes"
                                       ELSE "idle"]
           /\ start_index = [self \in Procs |-> IF self = 1 THEN s ELSE 0]
           /\ end_index = [self \in Procs |-> IF self = 1 THEN e ELSE 0]
           /\ to_update = [self \in Procs |-> EmptyOverlay]
           /\ ret = [self \in Procs |->
                        IF self = 1
                        THEN CallRec("get_hashes", D, s, FrDefault,
                                     "running", << >>, <<s, e>>, {},
                                     FullStore(lv, D))
                        ELSE NoCall]
           /\ aligned = TRUE
           /\ ncalls = 0

\* the map with one more at every index of the set
count_up(counts, indices) ==
    [i \in DOMAIN counts \cup indices |->
        (IF i \in DOMAIN counts THEN counts[i] ELSE 0)
        + (IF i \in indices THEN 1 ELSE 0)]

\* one iteration of the while loop: a poseidon_hash_ for every parent of
\* start_parent ..= end_parent, a SELECT for every child not in the map
RangeLevel(self) ==
    LET start_parent == node_parent(start_index[self])
        end_parent == node_parent(end_index[self])
    IN  /\ GetHashesLevel(self)
        /\ meter' = [meter EXCEPT
                         !.hashes = count_up(@, start_parent .. end_parent),
                         !.reads = count_up(
                                       @, ChildrenOf(start_parent, end_parent)
                                              \ DOMAIN to_update[self]),
                         !.log = @ \o level_events(store, to_update[self],
                                                   start_parent, end_parent),
                         !.iters = @ + 1]
        /\ UNCHANGED <<snap, overlapped, hash_call, lazy, codec,
                   gen_vars>>

RangeDone(self) ==
    /\ GetHashesDone(self)
    /\ UNCHANGED aux_vars

NextRange == RangeLevel(1) \/ RangeDone(1)

SpecRange == RangeInit /\ [][NextRange]_vars

\* the proper ancestors of the indices s .. e
RangeAncestors(s, e) == UNION {Ancestors(i) : i \in s .. e}

\* C20: during one call over a range of one level no node is hashed twice
\* and only proper ancestors of indices of the range are hashed; when the
\* call has returned every such ancestor has been hashed exactly once.
RangeHashesEachAncestorOnce ==
    LET s == ret[1].idx[1]
        e == ret[1].idx[2]
    IN  ret[1].op = "get_hashes" =>
            /\ \A i \in DOMAIN meter.hashes : meter.hashes[i] = 1
            /\ DOMAIN meter.hashes \subseteq RangeAncestors(s, e)
            /\ pc[1] = "flush" =>
                   /\ DOMAIN meter.hashes = RangeAncestors(s, e)
                   /\ DOMAIN to_update[1] = RangeAncestors(s, e)

\* the call has returned for a range of three leaves of a depth >= 2 tree,
\* two of which have the same parent
WitnessRangeHashesEachAncestorOnce ==
    LET s == ret[1].idx[1]
        e == ret[1].idx[2]
    IN  /\ ret[1].op = "get_hashes" /\ pc[1] = "flush"
        /\ tree_depth >= 2 /\ s \in LevelIndices(tree_depth)
        /\ e = s + 2
        /\ node_parent(s) = node_parent(s + 1)
        /\ meter.hashes[node_parent(s)] = 1
        /\ meter.hashes[0] = 1

\* ---------------------------------------------- set_leaf, with its trace
\* pgfr_mtree_set_leaf is entered for a leaf of the initialized tree
TraceSetLeaf(self, index_in_mtree, leaf_value) ==
    /\ tree_depth >= 0
    /\ SetLeafWrite(self, tree_depth, index_in_mtree, leaf_value)
    /\ meter' = NoMeter
    /\ UNCHANGED <<snap, overlapped, hash_call, lazy, codec, gen_vars>>

\* one iteration of the while loop of mtree_get_hashes
TraceLevel(self) ==
    LET start_parent == node_parent(start_index[self])
        end_parent == node_parent(end_index[self])
    IN  /\ GetHashesLevel(self)
        /\ meter' = [meter EXCEPT
                         !.hashes = count_up(@, start_parent .. end_parent),
                         !.reads = count_up(
                                       @, ChildrenOf(start_parent, end_parent)
                                              \ DOMAIN to_update[self]),
                         !.log = @ \o level_events(store, to_update[self],
                                                   start_parent, end_parent),
                         !.iters = @ + 1]
        /\ UNCHANGED <<snap, overlapped, hash_call, lazy, codec, gen_vars>>

TraceDone(self) ==
    /\ GetHashesDone(self)
    /\ UNCHANGED aux_vars

\* the bulk UPDATE
TraceFlush(self) ==
    /\ SetLeafFlush(self)
    /\ meter' = [meter EXCEPT !.writes = @ + 1]
    /\ UNCHANGED <<snap, overlapped, hash_call, lazy, codec, gen_vars>>

TraceInitTree ==
    /\ \E depth \in Depths : InitTree(1, depth)
    /\ UNCHANGED aux_vars

NextTrace ==
    \/ TraceInitTree
    \/ /\ tree_depth >= 0
       /\ \E p \in 0 .. (Pow2(tree_depth) - 1) : \E v \in LeafValues :
              TraceSetLeaf(1, p, v)
    \/ TraceLevel(1)
    \/ TraceDone(1)
    \/ TraceFlush(1)

SpecTrace == Init /\ [][NextTrace]_vars

\* the positions of the log with a SELECT of node c
SelectsOf(c) ==
    {k \in 1 .. Len(meter.log) :
        meter.log[k].ev = "select" /\ meter.log[k].at = c}

\* C21: while the ancestors are recomputed, a child that is in the overlay
\* is not read from the store and its overlay value is the one hashed; a
\* child that is not in the overlay is read exactly once, before the hash
\* of its parent, and its stored value is the one hashed.
OverlayChildrenNotRead ==
    (ret[1].op = "set_leaf" /\ pc[1] \in {"get_hashes", "flush"}) =>
        \A k \in 1 .. Len(meter.log) :
            meter.log[k].ev = "hash" =>
                \A side \in 1 .. 2 :
                    LET c == (2 * meter.log[k].at) + side
                        used == meter.log[k].args[side]
                    IN  IF c \in DOMAIN to_update[1]
                        THEN /\ SelectsOf(c) = {}
                             /\ used = to_update[1][c]
                        ELSE /\ Cardinality(SelectsOf(c)) = 1
                             /\ \A j \in SelectsOf(c) : j < k
                             /\ used = store[c]

\* the recomputation is complete for a new leaf value of a depth >= 2
\* tree: the root was hashed from an overlay child whose stored value is
\* another one
WitnessOverlayChildrenNotRead ==
    /\ ret[1].op = "set_leaf" /\ pc[1] = "flush" /\ tree_depth >= 2
    /\ \E k \in 1 .. Len(meter.log) :
           /\ meter.log[k].ev = "hash" /\ meter.log[k].at = 0
           /\ \E side \in 1 .. 2 :
                  /\ side \in DOMAIN to_update[1]
                  /\ meter.log[k].args[side] = to_update[1][side]
                  /\ store[side] # to_update[1][side]

\* ------------------------------------------------ the order of the hashes
IsHash(e) == e.ev = "hash"

\* the nodes hashed so far, in the order they were hashed
HashedNodes ==
    LET hs == SelectSeq(meter.log, IsHash)
    IN  [k \in 1 .. Len(hs) |-> hs[k].at]

\* the level of node i, the root being level 0
NodeLevel(i) == CHOOSE L \in 0 .. (MaxDepth + TestDepth) : i \in LevelIndices(L)

\* C22: the ancestors are hashed level by level from the level above the
\* range up to the root, in ascending index order within a level, and when
\* a node is hashed each of its affected children has been hashed before
\* it and the value used for that child is the one recorded in the overlay.
HashesGoLevelByLevel ==
    LET s == ret[1].idx[1]
        e == ret[1].idx[2]
        hs == SelectSeq(meter.log, IsHash)
        at == HashedNodes
    IN  ret[1].op = "get_hashes" =>
            /\ \A k \in 1 .. (Len(at) - 1) :
                   \/ /\ NodeLevel(at[k + 1]) = NodeLevel(at[k])
                      /\ at[k + 1] > at[k]
                   \/ /\ NodeLevel(at[k + 1]) = NodeLevel(at[k]) - 1
                      /\ \A j \in (k + 1) .. Len(at) :
                             NodeLevel(at[j]) < NodeLevel(at[k])
            /\ Len(at) >= 1 => NodeLevel(at[1]) = NodeLevel(s) - 1
            /\ (pc[1] = "flush" /\ s > 0) => at[Len(at)] = 0
            /\ \A k \in 1 .. Len(at) : \A side \in 1 .. 2 :
                   LET c == (2 * at[k]) + side
                   IN  c \in RangeAncestors(s, e) =>
                           /\ \E j \in 1 .. (k - 1) : at[j] = c
                           /\ hs[k].args[side] = to_update[1][c]

\* the call has returned for a range of three leaves of a depth >= 2 tree:
\* two nodes were hashed on the level above the leaves, the lower index
\* first, and the root last
WitnessHashesGoLevelByLevel ==
    LET s == ret[1].idx[1]
        e == ret[1].idx[2]
        at == HashedNodes
    IN  /\ ret[1].op = "get_hashes" /\ pc[1] = "flush"
        /\ tree_depth >= 2 /\ s \in LevelIndices(tree_depth) /\ e = s + 2
        /\ Len(at) >= 3
        /\ at[1] = node_parent(s) /\ at[2] = node_parent(e)
        /\ at[Len(at)] = 0

\* ------------------------------------------- set_leaf runs to its end
\* a backend that has entered set_leaf keeps executing it
SpecTraceFair ==
    /\ SpecTrace
    /\ WF_vars(TraceLevel(1))
    /\ WF_vars(TraceDone(1))
    /\ WF_vars(TraceFlush(1))

IsSelect(e) == e.ev = "select"

\* C23: on an initialized depth-D tree every in-range set_leaf returns Ok,
\* after exactly D iterations of the loop, D hash evaluations, D + 1 point
\* reads when D >= 1 (none when D = 0) and one bulk write.
SetLeafTerminatesInDepthSteps ==
    /\ [](LET D == ret[1].depth
          IN  (ret[1].op = "set_leaf" /\ pc[1] = "idle") =>
                  /\ ret[1].status = "ok"
                  /\ meter.iters = D
                  /\ Len(SelectSeq(meter.log, IsHash)) = D
                  /\ Len(SelectSeq(meter.log, IsSelect))
                         = IF D >= 1 THEN D + 1 ELSE 0
                  /\ meter.writes = 1)
    /\ (ret[1].op = "set_leaf" /\ pc[1] = "get_hashes")
           ~> (ret[1].op = "set_leaf" /\ pc[1] = "idle"
               /\ ret[1].status = "ok")

\* set_leaf has returned on a tree of depth >= 2 after a loop of as many
\* iterations as the tree has levels above the leaves
WitnessSetLeafTerminatesInDepthSteps ==
    /\ ret[1].op = "set_leaf" /\ pc[1] = "idle" /\ ret[1].status = "ok"
    /\ tree_depth >= 2 /\ ret[1].depth = tree_depth
    /\ meter.iters = tree_depth /\ meter.writes = 1
    /\ ret[1].value # FrDefault

\* ------------------------------------------ Poseidon::hash, round by round
RoundsF == 8

\* Poseidon::ark: the indices of c that round constants are taken from
ark_indices(it, t) == {it + j : j \in 0 .. (t - 1)}

\* mutant of sbox: every round is a full round
sbox_all(n_rounds_f, n_rounds_p, t, i) == 0 .. (t - 1)

\* Poseidon::sbox: the state positions that are raised to the fifth power
sbox(n_rounds_f, n_rounds_p, t, i) ==
    IF (i < n_rounds_f \div 2) \/ (i >= (n_rounds_f \div 2) + n_rounds_p)
    THEN 0 .. (t - 1)
    ELSE {0}

\* mutant of round_offset: the offset of a round is one short per round
round_offset_short(rp, i) == i * (rp.t - 1)

\* i * self.round_params[param_index].t, the `it` given to ark
round_offset(rp, i) == i * rp.t

\* hash is entered with an input of length rp.t - 1 for the parameter set rp
SpongeEntered(rp) ==
    [status |-> "running", rp |-> rp, t |-> rp.t, i |-> 0, phase |-> "ark",
     trace |-> << >>, sboxed |-> {}, nfull |-> 0, npartial |-> 0,
     used |-> [k \in {} |-> 0]]

SpongeInit ==
    /\ TreeInit
    /\ snap = NoSnap /\ overlapped = FALSE /\ meter = NoMeter
    /\ hash_call = NoHashCall /\ lazy = LazyUnforced /\ codec = NoCodec
    /\ lfsr = NoLfsr /\ deriv = NoDeriv /\ arith = NoArith
    /\ \E k \in 1 .. Len(ROUND_PARAMS) :
           sponge = SpongeEntered(Poseidon_from(ROUND_PARAMS)[k])

SpongeRounds == sponge.rp.n_rounds_f + sponge.rp.n_rounds_p

\* self.ark(&mut state, c, i * t)
SpongeArk ==
    LET indices == ark_indices(round_offset(sponge.rp, sponge.i), sponge.t)
    IN  /\ sponge.status = "running" /\ sponge.phase = "ark"
        /\ sponge.i < SpongeRounds
        /\ sponge' = IF \A k \in indices : k < sponge.rp.c_len
                     THEN [sponge EXCEPT !.phase = "sbox",
                                         !.trace = <<"ark">>,
                                         !.used = count_up(@, indices)]
                     ELSE [sponge EXCEPT !.status = "panic"]
        /\ UNCHANGED <<tree_vars, snap, overlapped, meter, hash_call, lazy,
                       codec, lfsr, deriv, arith>>

\* self.sbox(n_rounds_f, n_rounds_p, &mut state, i)
SpongeSbox ==
    LET raised == sbox(sponge.rp.n_rounds_f, sponge.rp.n_rounds_p,
                       sponge.t, sponge.i)
    IN  /\ sponge.status = "running" /\ sponge.phase = "sbox"
        /\ sponge' = [sponge EXCEPT
                          !.phase = "mix",
                          !.trace = Append(@, "sbox"),
                          !.sboxed = raised,
                          !.nfull = IF raised = 0 .. (sponge.t - 1)
                                    THEN @ + 1 ELSE @,
                          !.npartial = IF raised = 0 .. (sponge.t - 1)
                                       THEN @ ELSE @ + 1]
        /\ UNCHANGED <<tree_vars, snap, overlapped, meter, hash_call, lazy,
                       codec, lfsr, deriv, arith>>

\* self.mix_2(&state, m, &mut state_2); swap; the next round
SpongeMix ==
    /\ sponge.status = "running" /\ sponge.phase = "mix"
    /\ sponge' = IF sponge.t <= sponge.rp.m_dim
                 THEN [sponge EXCEPT !.phase = "ark",
                                     !.trace = Append(@, "mix"),
                                     !.i = @ + 1]
                 ELSE [sponge EXCEPT !.status = "panic"]
    /\ UNCHANGED <<tree_vars, snap, overlapped, meter, hash_call, lazy,
                   codec, lfsr, deriv, arith>>

\* Ok(state[0])
SpongeReturn ==
    /\ sponge.status = "running" /\ sponge.phase = "ark"
    /\ sponge.i = SpongeRounds
    /\ sponge' = [sponge EXCEPT !.status = "Ok"]
    /\ UNCHANGED <<tree_vars, snap, overlapped, meter, hash_call, lazy,
                   codec, lfsr, deriv, arith>>

NextSponge == SpongeArk \/ SpongeSbox \/ SpongeMix \/ SpongeReturn

SpecSponge == SpongeInit /\ [][NextSponge]_vars

\* C24: a hash call runs RF + RP rounds, each one add-round-constant, then
\* S-box, then mix; round i is full exactly when i < RF/2 or
\* i >= RF/2 + RP, which gives RF/2 full, RP partial and RF/2 full rounds
\* with RF = RoundsF, and a partial round raises state[0] only.
RoundScheduleIsFullPartialFull ==
    LET half == RoundsF \div 2
        RP == sponge.rp.n_rounds_p
        full == sponge.i < half \/ sponge.i >= half + RP
    IN  /\ sponge.rp.n_rounds_f = RoundsF
        /\ sponge.status # "panic"
        /\ sponge.trace \in {<< >>, <<"ark">>, <<"ark", "sbox">>,
                             <<"ark", "sbox", "mix">>}
        /\ sponge.phase = "mix" =>
               sponge.sboxed = IF full THEN 0 .. (sponge.t - 1) ELSE {0}
        /\ sponge.nfull = (IF sponge.i < half THEN sponge.i
                           ELSE IF sponge.i < half + RP THEN half
                           ELSE sponge.i - RP)
                          + (IF sponge.phase = "mix" /\ full THEN 1 ELSE 0)
        /\ sponge.nfull + sponge.npartial
               = sponge.i + (IF sponge.phase = "mix" THEN 1 ELSE 0)
        /\ sponge.status = "Ok" =>
               /\ sponge.i = RoundsF + RP
               /\ sponge.nfull = RoundsF /\ sponge.npartial = RP

\* the hash of eight inputs (t = 9) has returned after its 71 rounds
WitnessRoundScheduleIsFullPartialFull ==
    /\ sponge.status = "Ok"
    /\ sponge.t = MaxArity
    /\ sponge.npartial = sponge.rp.n_rounds_p
    /\ sponge.trace = <<"ark", "sbox", "mix">>

\* the S-box step of the first partial round of a hash of two inputs
WitnessFirstPartialRound ==
    /\ sponge.status = "running" /\ sponge.phase = "mix"
    /\ sponge.t = MinArity + 1
    /\ sponge.i = RoundsF \div 2
    /\ sponge.sboxed = {0}

\* C25: the round-constant vector of every parameter set has
\* (RF + RP) * t elements and its matrix is t by t; every index i*t + j a
\* hash uses is within the vector, and when the hash returns every
\* constant has been used exactly once.
EveryConstantUsedOnce ==
    LET rp == sponge.rp
    IN  /\ rp.c_len = (rp.n_rounds_f + rp.n_rounds_p) * rp.t
        /\ rp.m_dim = rp.t
        /\ sponge.status # "panic"
        /\ \A k \in DOMAIN sponge.used :
               k \in 0 .. (rp.c_len - 1) /\ sponge.used[k] = 1
        /\ sponge.status = "Ok" =>
               DOMAIN sponge.used = 0 .. (rp.c_len - 1)

\* the hash of two inputs (t = 3) has returned: 195 constants were used
WitnessEveryConstantUsedOnce ==
    /\ sponge.status = "Ok"
    /\ sponge.t = MinArity + 1
    /\ Cardinality(DOMAIN sponge.used) = sponge.rp.c_len
    /\ sponge.rp.c_len > 0

\* ------------------------------------------------- PoseidonGrainLFSR
MaxBits == 4
MaxDraws == 2

RegisterLen == 80
WarmupSteps == 160

\* Fr::MODULUS_BIT_SIZE of ark_bn254, and the sizes of two other fields the
\* generic code can be built for
PrimeBitsFr == 254
PrimeBitsChoices == {PrimeBitsFr, 255, 381}

Xor(a, b) == a # b

\* mutant of write_bits: the least significant bit goes to the lowest cell
write_bits_lsb_first(state, lo, hi, value) ==
    [i \in DOMAIN state |->
        IF i \in lo .. hi
        THEN (value \div (2 ^ (i - lo))) % 2 = 1
        ELSE state[i]]

\* for i in (lo..=hi).rev() { state[i] = cur & 1 == 1; cur >>= 1; }
write_bits(state, lo, hi, value) ==
    [i \in DOMAIN state |->
        IF i \in lo .. hi
        THEN (value \div (2 ^ (hi - i))) % 2 = 1
        ELSE state[i]]

\* PoseidonGrainLFSR::new up to the call of init: the register it fills
seed_register(is_field, is_sbox_an_inverse, prime_num_bits, state_len, num_full_rounds, num_partial_rounds) ==
    LET s0 == [i \in 0 .. (RegisterLen - 1) |-> FALSE]
        s1 == [s0 EXCEPT ![1] = (is_field = 1)]
        s2 == [s1 EXCEPT ![5] = (is_sbox_an_inverse = 1)]
        s3 == write_bits(s2, 6, 17, prime_num_bits)
        s4 == write_bits(s3, 18, 29, state_len)
        s5 == write_bits(s4, 30, 39, num_full_rounds)
        s6 == write_bits(s5, 40, 49, num_partial_rounds)
    IN  [i \in 0 .. (RegisterLen - 1) |-> IF i >= 50 THEN TRUE ELSE s6[i]]

\* the xor of the six cells that update and init read
feedback(state, head) ==
    Xor(Xor(Xor(Xor(Xor(state[(head + 62) % RegisterLen],
                        state[(head + 51) % RegisterLen]),
                    state[(head + 38) % RegisterLen]),
                state[(head + 23) % RegisterLen]),
            state[(head + 13) % RegisterLen]),
        state[head])

\* mutant of update: the first tap is one cell off
update_tap_61(state, head) ==
    LET new_bit ==
            Xor(Xor(Xor(Xor(Xor(state[(head + 61) % RegisterLen],
                                state[(head + 51) % RegisterLen]),
                            state[(head + 38) % RegisterLen]),
                        state[(head + 23) % RegisterLen]),
                    state[(head + 13) % RegisterLen]),
                state[head])
    IN  [state |-> [state EXCEPT ![head] = new_bit],
         head |-> (head + 1) % RegisterLen,
         bit |-> new_bit]

\* PoseidonGrainLFSR::update
update(state, head) ==
    LET new_bit == feedback(state, head)
    IN  [state |-> [state EXCEPT ![head] = new_bit],
         head |-> (head + 1) % RegisterLen,
         bit |-> new_bit]

\* the body of the loop of PoseidonGrainLFSR::init
init_step(state, head) ==
    LET new_bit == feedback(state, head)
    IN  [state |-> [state EXCEPT ![head] = new_bit],
         head |-> (head + 1) % RegisterLen,
         bit |-> new_bit]

\* the arguments of new: is_field, is_sbox_an_inverse, prime_num_bits and
\* one of the (t, RF, RP) of ROUND_PARAMS
LfsrArgs ==
    {[is_field |-> f, is_sbox_an_inverse |-> b, prime_num_bits |-> n,
      state_len |-> ROUND_PARAMS[k][1],
      num_full_rounds |-> ROUND_PARAMS[k][2],
      num_partial_rounds |-> ROUND_PARAMS[k][3]] :
        f \in 0 .. 1, b \in 0 .. 1, n \in PrimeBitsChoices,
        k \in 1 .. Len(ROUND_PARAMS)}

LfsrCalled(args) ==
    [status |-> "new", args |-> args,
     state |-> [i \in 0 .. (RegisterLen - 1) |-> FALSE], head |-> 0,
     seed |-> [i \in 0 .. (RegisterLen - 1) |-> FALSE],
     warm |-> 0, nsteps |-> 0, bit |-> FALSE,
     ndraws |-> 0, gpc |-> "none", num_bits |-> 0,
     res |-> << >>, raw |-> << >>, out |-> << >>]

LfsrInit ==
    /\ TreeInit
    /\ snap = NoSnap /\ overlapped = FALSE /\ meter = NoMeter
    /\ hash_call = NoHashCall /\ lazy = LazyUnforced /\ codec = NoCodec
    /\ sponge = NoSponge /\ deriv = NoDeriv /\ arith = NoArith
    /\ lfsr \in {LfsrCalled(args) : args \in LfsrArgs}

LfsrFrame ==
    UNCHANGED <<tree_vars, snap, overlapped, meter, hash_call, lazy, codec,
                sponge, deriv, arith>>

\* new: assert!(is_field == 1) fails
LfsrNewPanic ==
    /\ lfsr.status = "new"
    /\ lfsr.args.is_field # 1
    /\ lfsr' = [lfsr EXCEPT !.status = "panic"]
    /\ LfsrFrame

\* new: the register is filled and head is set to 0
LfsrNew ==
    LET a == lfsr.args
        state == seed_register(a.is_field, a.is_sbox_an_inverse,
                               a.prime_num_bits, a.state_len,
                               a.num_full_rounds, a.num_partial_rounds)
    IN  /\ lfsr.status = "new"
        /\ a.is_field = 1 /\ a.is_sbox_an_inverse \in {0, 1}
        /\ lfsr' = [lfsr EXCEPT !.status = "init", !.state = state,
                                !.seed = state, !.head = 0]
        /\ LfsrFrame

\* init: one iteration of for _ in 0..160
LfsrInitStep ==
    LET step == init_step(lfsr.state, lfsr.head)
    IN  /\ lfsr.status = "init"
        /\ lfsr.warm < WarmupSteps
        /\ lfsr' = [lfsr EXCEPT !.state = step.state, !.head = step.head,
                                !.bit = step.bit, !.warm = @ + 1,
                                !.nsteps = @ + 1]
        /\ LfsrFrame

\* init and new return
LfsrInitDone ==
    /\ lfsr.status = "init"
    /\ lfsr.warm = WarmupSteps
    /\ lfsr' = [lfsr EXCEPT !.status = "ready"]
    /\ LfsrFrame

\* get_bits(num_bits) is called
GetBitsCall(num_bits) ==
    /\ lfsr.status = "ready"
    /\ lfsr.ndraws < MaxDraws
    /\ lfsr' = [lfsr EXCEPT !.status = "get_bits", !.gpc = "first",
                            !.num_bits = num_bits, !.ndraws = @ + 1,
                            !.res = << >>, !.raw = << >>, !.out = << >>]
    /\ LfsrFrame

\* let mut new_bit = self.update(), or new_bit = self.update() in the
\* while loop
GetBitsFirst ==
    LET step == update(lfsr.state, lfsr.head)
    IN  /\ lfsr.status = "get_bits" /\ lfsr.gpc = "first"
        /\ Len(lfsr.res) < lfsr.num_bits
        /\ lfsr' = [lfsr EXCEPT !.state = step.state, !.head = step.head,
                                !.bit = step.bit, !.nsteps = @ + 1,
                                !.raw = Append(@, step.bit),
                                !.gpc = IF step.bit THEN "second"
                                        ELSE "discard"]
        /\ LfsrFrame

\* mutant of GetBitsDiscard: the second bit of a rejected pair is not drawn
GetBitsDiscard_not_drawn ==
    /\ lfsr.status = "get_bits" /\ lfsr.gpc = "discard"
    /\ lfsr' = [lfsr EXCEPT !.gpc = "first"]
    /\ LfsrFrame

\* let _ = self.update()
GetBitsDiscard ==
    LET step == update(lfsr.state, lfsr.head)
    IN  /\ lfsr.status = "get_bits" /\ lfsr.gpc = "discard"
        /\ lfsr' = [lfsr EXCEPT !.state = step.state, !.head = step.head,
                                !.bit = step.bit, !.nsteps = @ + 1,
                                !.raw = Append(@, step.bit),
                                !.gpc = "first"]
        /\ LfsrFrame

\* res.push(self.update())
GetBitsPush ==
    LET step == update(lfsr.state, lfsr.head)
    IN  /\ lfsr.status = "get_bits" /\ lfsr.gpc = "second"
        /\ lfsr' = [lfsr EXCEPT !.state = step.state, !.head = step.head,
                                !.bit = step.bit, !.nsteps = @ + 1,
                                !.raw = Append(@, step.bit),
                                !.res = Append(@, step.bit),
                                !.gpc = "first"]
        /\ LfsrFrame

\* the for loop is over: res is returned
GetBitsReturn ==
    /\ lfsr.status = "get_bits" /\ lfsr.gpc = "first"
    /\ Len(lfsr.res) = lfsr.num_bits
    /\ lfsr' = [lfsr EXCEPT !.status = "ready", !.gpc = "none",
                            !.out = lfsr.res]
    /\ LfsrFrame

NextLfsr ==
    \/ LfsrNewPanic
    \/ LfsrNew
    \/ LfsrInitStep
    \/ LfsrInitDone
    \/ \E num_bits \in 0 .. MaxBits : GetBitsCall(num_bits)
    \/ GetBitsFirst
    \/ GetBitsDiscard
    \/ GetBitsPush
    \/ GetBitsReturn

SpecLfsr == LfsrInit /\ [][NextLfsr]_vars

\* bit k (0 = least significant) of a number
BitOf(value, k) == (value \div (2 ^ k)) % 2 = 1

\* cells lo .. hi hold the number most significant bit first
HoldsMsbFirst(reg, lo, hi, value) ==
    \A i \in lo .. hi : reg[i] = BitOf(value, hi - i)

\* C26: the seed register has bits 0, 2, 3, 4 zero, bit 1 one, bit 5 =
\* is_sbox_inverse, then prime_bits, state_width, full_rounds and
\* partial_rounds most significant bit first in bits 6..17, 18..29, 30..39
\* and 40..49, and bits 50..79 one; the register has made exactly
\* WarmupSteps update steps, and its head is back at 0, before a bit is
\* drawn.
SeedLayoutAndWarmup ==
    LET a == lfsr.args
        seed == lfsr.seed
    IN  lfsr.status \in {"init", "ready", "get_bits"} =>
            /\ \A i \in {0, 2, 3, 4} : ~seed[i]
            /\ seed[1]
            /\ seed[5] = (a.is_sbox_an_inverse = 1)
            /\ HoldsMsbFirst(seed, 6, 17, a.prime_num_bits)
            /\ HoldsMsbFirst(seed, 18, 29, a.state_len)
            /\ HoldsMsbFirst(seed, 30, 39, a.num_full_rounds)
            /\ HoldsMsbFirst(seed, 40, 49, a.num_partial_rounds)
            /\ \A i \in 50 .. (RegisterLen - 1) : seed[i]
            /\ lfsr.warm = 0 => lfsr.state = seed /\ lfsr.head = 0
            /\ lfsr.status \in {"ready", "get_bits"} =>
                   lfsr.warm = WarmupSteps
            /\ lfsr.nsteps > lfsr.warm => lfsr.warm = WarmupSteps
            /\ (lfsr.status = "ready" /\ lfsr.ndraws = 0) =>
                   lfsr.nsteps = WarmupSteps /\ lfsr.head = 0

\* the generator for BN254, t = 3, RF = 8, RP = 57 is warmed up and no bit
\* has been drawn from it
WitnessSeedLayoutAndWarmup ==
    /\ lfsr.status = "ready" /\ lfsr.ndraws = 0
    /\ lfsr.args.prime_num_bits = PrimeBitsFr
    /\ lfsr.args.state_len = MinArity + 1
    /\ lfsr.warm = WarmupSteps
    /\ lfsr.state # lfsr.seed

\* C27: every update step, in the warm-up and when a bit is drawn, writes
\* the xor of the cells at offsets 62, 51, 38, 23, 13 and 0 from the head
\* (modulo RegisterLen) into the head cell, leaves the other cells
\* unchanged, advances the head by one modulo RegisterLen and yields the
\* new bit.
UpdateStepIsOneTransition ==
    [][lfsr'.nsteps # lfsr.nsteps =>
           LET h == lfsr.head
               cell(off) == lfsr.state[(h + off) % RegisterLen]
               new_bit == Xor(cell(62), Xor(cell(51), Xor(cell(38),
                          Xor(cell(23), Xor(cell(13), cell(0))))))
           IN  /\ lfsr'.nsteps = lfsr.nsteps + 1
               /\ lfsr'.state[h] = new_bit
               /\ \A i \in 0 .. (RegisterLen - 1) :
                      i # h => lfsr'.state[i] = lfsr.state[i]
               /\ lfsr'.head = (h + 1) % RegisterLen
               /\ lfsr'.head \in 0 .. (RegisterLen - 1)
               /\ lfsr'.bit = new_bit]_vars

\* a bit has been drawn after the warm-up with the head past the end of
\* the register once more
WitnessUpdateStepIsOneTransition ==
    /\ lfsr.status = "get_bits"
    /\ lfsr.nsteps > WarmupSteps
    /\ lfsr.warm = WarmupSteps
    /\ lfsr.head = lfsr.nsteps % RegisterLen
    /\ lfsr.bit

\* the second bits of the complete pairs of raw whose first bit is 1
RECURSIVE PairOutputs(_, _)
PairOutputs(raw, k) ==
    IF 2 * k > Len(raw)
    THEN << >>
    ELSE (IF raw[(2 * k) - 1] THEN <<raw[2 * k]>> ELSE << >>)
         \o PairOutputs(raw, k + 1)

\* C28: get_bits(n) consumes the update bits in pairs, drops every pair
\* whose first bit is 0 and emits the second bit of every pair whose first
\* bit is 1; it returns exactly n bits after an even number of update
\* steps that is at least 2n.
GetBitsConsumesPairs ==
    lfsr.status \in {"ready", "get_bits"} =>
        /\ lfsr.res = PairOutputs(lfsr.raw, 1)
        /\ Len(lfsr.res) <= lfsr.num_bits
        /\ (lfsr.status = "ready" /\ lfsr.ndraws > 0) =>
               /\ lfsr.out = lfsr.res
               /\ Len(lfsr.out) = lfsr.num_bits
               /\ Len(lfsr.raw) % 2 = 0
               /\ Len(lfsr.raw) >= 2 * lfsr.num_bits

\* get_bits(MaxBits) has returned after dropping at least one pair
WitnessGetBitsConsumesPairs ==
    /\ lfsr.status = "ready" /\ lfsr.ndraws > 0
    /\ lfsr.num_bits = MaxBits
    /\ Len(lfsr.out) = MaxBits
    /\ Len(lfsr.raw) > 2 * MaxBits
    /\ \E k \in 1 .. Len(lfsr.out) : lfsr.out[k]
    /\ \E k \in 1 .. Len(lfsr.out) : ~lfsr.out[k]

\* ------------------------------------------- find_poseidon_ark_and_mds
\* The function is generic in the field F. It is run here over the field of
\* SmallPrime elements, whose elements are drawn from SmallPrimeBits bits.
MaxRate == 2

SmallPrime == 5
SmallPrimeBits == 3

FieldElements == 0 .. (SmallPrime - 1)

\* F::from_le_bytes_mod_order of the bits get_bits returned
from_bits_mod_order(value) == value % SmallPrime

\* a.inverse(): None for zero
inverse(a) ==
    IF a % SmallPrime = 0
    THEN None
    ELSE CHOOSE m \in FieldElements : (m * a) % SmallPrime = 1

\* mutant of mds_sum: the difference of the two elements
mds_sum_difference(xs, ys, i, j) ==
    (xs[i] + SmallPrime - ys[j]) % SmallPrime

\* xs[i] + ys_item
mds_sum(xs, ys, i, j) == (xs[i] + ys[j]) % SmallPrime

\* the loops over i and j: the matrix, or a panic of unwrap() at the first
\* sum that has no inverse
fill_mds(xs, ys, rate) ==
    IF \E i \in 1 .. rate : \E j \in 1 .. rate :
           inverse(mds_sum(xs, ys, i, j)) = None
    THEN [status |-> "panic", mds |-> << >>]
    ELSE [status |-> "Ok",
          mds |-> [i \in 1 .. rate |->
                      [j \in 1 .. rate |-> inverse(mds_sum(xs, ys, i, j))]]]

\* a call of one of the two sampling functions
Draws(kind, num_elems) == <<kind, num_elems>>

DerivArgs ==
    {[rate |-> rate, full_rounds |-> 2, partial_rounds |-> rp,
      skip_matrices |-> skip] :
        rate \in 2 .. MaxRate, rp \in 0 .. 1, skip \in 0 .. 1}

DerivCalled(args) ==
    [status |-> "ark", args |-> args, log |-> << >>, nark |-> 0,
     nrounds |-> 0, nskip |-> 0, xs |-> << >>, ys |-> << >>,
     mds |-> << >>]

DerivInit ==
    /\ TreeInit
    /\ snap = NoSnap /\ overlapped = FALSE /\ meter = NoMeter
    /\ hash_call = NoHashCall /\ lazy = LazyUnforced /\ codec = NoCodec
    /\ sponge = NoSponge /\ lfsr = NoLfsr /\ arith = NoArith
    /\ deriv \in {DerivCalled(args) : args \in DerivArgs}

DerivFrame ==
    UNCHANGED <<tree_vars, snap, overlapped, meter, hash_call, lazy, codec,
                sponge, lfsr, arith>>

DerivRounds == deriv.args.full_rounds + deriv.args.partial_rounds

\* for _ in 0..(full_rounds + partial_rounds): rate elements by rejection
\* sampling are pushed to ark
DerivArkRound ==
    /\ deriv.status = "ark"
    /\ deriv.nrounds < DerivRounds
    /\ deriv' = [deriv EXCEPT
                     !.log = Append(@, Draws("rejection", deriv.args.rate)),
                     !.nark = @ + deriv.args.rate,
                     !.nrounds = @ + 1]
    /\ DerivFrame

\* for _ in 0..skip_matrices: 2 * rate elements mod p are dropped
DerivSkip ==
    /\ deriv.status = "ark"
    /\ deriv.nrounds = DerivRounds
    /\ deriv.nskip < deriv.args.skip_matrices
    /\ deriv' = [deriv EXCEPT
                     !.log = Append(@, Draws("mod_p", 2 * deriv.args.rate)),
                     !.nskip = @ + 1]
    /\ DerivFrame

\* let xs = lfsr.get_field_elements_mod_p::<F>(rate)
DerivXs(bits) ==
    /\ deriv.status = "ark"
    /\ deriv.nrounds = DerivRounds
    /\ deriv.nskip = deriv.args.skip_matrices
    /\ deriv' = [deriv EXCEPT
                     !.status = "xs",
                     !.log = Append(@, Draws("mod_p", deriv.args.rate)),
                     !.xs = [i \in 1 .. deriv.args.rate |->
                                from_bits_mod_order(bits[i])]]
    /\ DerivFrame

\* let ys = lfsr.get_field_elements_mod_p::<F>(rate)
DerivYs(bits) ==
    /\ deriv.status = "xs"
    /\ deriv' = [deriv EXCEPT
                     !.status = "ys",
                     !.log = Append(@, Draws("mod_p", deriv.args.rate)),
                     !.ys = [i \in 1 .. deriv.args.rate |->
                                from_bits_mod_order(bits[i])]]
    /\ DerivFrame

\* the matrix is filled and (ark, mds) returned
DerivMds ==
    LET res == fill_mds(deriv.xs, deriv.ys, deriv.args.rate)
    IN  /\ deriv.status = "ys"
        /\ res.status = "Ok"
        /\ deriv' = [deriv EXCEPT !.status = "Ok", !.mds = res.mds]
        /\ DerivFrame

\* inverse() gives None and unwrap() panics
DerivMdsPanic ==
    LET res == fill_mds(deriv.xs, deriv.ys, deriv.args.rate)
    IN  /\ deriv.status = "ys"
        /\ res.status = "panic"
        /\ deriv' = [deriv EXCEPT !.status = "panic"]
        /\ DerivFrame

\* the values of SmallPrimeBits bits, for each of rate elements
DrawnBits(rate) == [1 .. rate -> 0 .. ((2 ^ SmallPrimeBits) - 1)]

NextDeriv ==
    \/ DerivArkRound
    \/ DerivSkip
    \/ \E bits \in DrawnBits(deriv.args.rate) : DerivXs(bits)
    \/ \E bits \in DrawnBits(deriv.args.rate) : DerivYs(bits)
    \/ DerivMds
    \/ DerivMdsPanic

SpecDeriv == DerivInit /\ [][NextDeriv]_vars

\* n copies of e
Repeat(e, n) == [k \in 1 .. n |-> e]

\* C29: the derivation draws (RF + RP) * t round constants by rejection
\* sampling, then skip_matrix_count blocks of 2 * t elements mod p, then x
\* and then y of t elements mod p each; it ends in a panic exactly when
\* some x[i] + y[j] is zero, and otherwise M[i][j] is the inverse of
\* x[i] + y[j], whatever else holds of x and y.
DerivationOrderAndFailure ==
    LET a == deriv.args
        t == a.rate
    IN  deriv.status \in {"Ok", "panic"} =>
            /\ deriv.log =
                   Repeat(Draws("rejection", t),
                          a.full_rounds + a.partial_rounds)
                   \o Repeat(Draws("mod_p", 2 * t), a.skip_matrices)
                   \o <<Draws("mod_p", t), Draws("mod_p", t)>>
            /\ deriv.nark = (a.full_rounds + a.partial_rounds) * t
            /\ deriv.status = "panic" <=>
                   \E i \in 1 .. t : \E j \in 1 .. t :
                       (deriv.xs[i] + deriv.ys[j]) % SmallPrime = 0
            /\ deriv.status = "Ok" =>
                   \A i \in 1 .. t : \A j \in 1 .. t :
                       (deriv.mds[i][j] * (deriv.xs[i] + deriv.ys[j]))
                           % SmallPrime = 1

\* a derivation with one skipped block has panicked on a zero sum that is
\* not on the diagonal
WitnessDerivationOrderAndFailure ==
    /\ deriv.status = "panic"
    /\ deriv.args.skip_matrices = 1
    /\ deriv.args.partial_rounds = 1
    /\ \A i \in 1 .. deriv.args.rate :
           (deriv.xs[i] + deriv.ys[i]) % SmallPrime # 0

\* a derivation has returned a matrix although x has the same element twice
WitnessDerivationAcceptsDuplicates ==
    /\ deriv.status = "Ok"
    /\ deriv.xs[1] = deriv.xs[2]
    /\ deriv.ys[1] = deriv.ys[2]

\* ------------------------------------------------ merkle_tree_utils.rs
\* node_parent and first_child on the index type usize. usize has 16, 32 or
\* 64 bits depending on the target; the smallest is taken, the functions
\* being the same at every width.
UsizeBits == 16

UsizeMax == (2 ^ UsizeBits) - 1

\* the value a usize holds after an operation whose result is n, when the
\* build does not check for overflow
wrapping(n) == n % (2 ^ UsizeBits)

\* an addition or subtraction with the result n panics in a build that
\* checks for overflow
overflows(n) == n < 0 \/ n > UsizeMax

\* node_parent in usize arithmetic
node_parent_usize(index) ==
    IF index = 0
    THEN None
    ELSE wrapping((wrapping(index + 1) \div 2) + UsizeMax)

\* first_child in usize arithmetic: << drops the high bit in every build
first_child_usize(index) == wrapping(wrapping(index * 2) + 1)

NodeParentOverflows(index) ==
    index # 0 /\ (overflows(index + 1)
                  \/ overflows((wrapping(index + 1) \div 2) - 1))

ArithCalled(index) ==
    [status |-> "called", index |-> index, parent |-> None,
     left |-> None, right |-> None, left_parent |-> None,
     right_parent |-> None]

ArithInit ==
    /\ TreeInit
    /\ snap = NoSnap /\ overlapped = FALSE /\ meter = NoMeter
    /\ hash_call = NoHashCall /\ lazy = LazyUnforced /\ codec = NoCodec
    /\ sponge = NoSponge /\ lfsr = NoLfsr /\ deriv = NoDeriv
    /\ arith \in {ArithCalled(index) : index \in 0 .. UsizeMax}

ArithFrame ==
    UNCHANGED <<tree_vars, snap, overlapped, meter, hash_call, lazy, codec,
                sponge, lfsr, deriv>>

\* node_parent(index) returns
ArithNodeParent ==
    /\ arith.status = "called"
    /\ arith' = [arith EXCEPT !.status = "parent",
                              !.parent = node_parent_usize(arith.index)]
    /\ ArithFrame

\* node_parent(index) panics at index + 1 in a build with overflow checks
ArithNodeParentPanic ==
    /\ arith.status = "called"
    /\ NodeParentOverflows(arith.index)
    /\ arith' = [arith EXCEPT !.status = "panic"]
    /\ ArithFrame

\* let left_child_ = first_child(parent); let right_child_ = left_child_ + 1;
\* and the parent of each
ArithChildren ==
    LET left == first_child_usize(arith.index)
        right == wrapping(left + 1)
    IN  /\ arith.status = "called"
        /\ arith' = [arith EXCEPT
                         !.status = "children",
                         !.left = left,
                         !.right = right,
                         !.left_parent = node_parent_usize(left),
                         !.right_parent = node_parent_usize(right)]
        /\ ArithFrame

\* left_child_ + 1, or the index + 1 of node_parent, panics in a build with
\* overflow checks
ArithChildrenPanic ==
    LET left == first_child_usize(arith.index)
    IN  /\ arith.status = "called"
        /\ overflows(left + 1) \/ NodeParentOverflows(left)
        /\ arith' = [arith EXCEPT !.status = "panic"]
        /\ ArithFrame

NextArith ==
    \/ ArithNodeParent
    \/ ArithNodeParentPanic
    \/ ArithChildren
    \/ ArithChildrenPanic

SpecArith == ArithInit /\ [][NextArith]_vars

\* C30: node_parent(0) is None; for every i > 0 node_parent(i) is
\* ((i+1) >> 1) - 1 and strictly smaller than i; for every i >= 0
\* first_child(i) = 2i + 1 is odd, first_child(i) + 1 is even and
\* node_parent of both is i.
IndexArithmeticConsistent ==
    LET i == arith.index
    IN  /\ arith.status # "panic"
        /\ arith.status = "parent" =>
               IF i = 0
               THEN arith.parent = None
               ELSE /\ arith.parent = ((i + 1) \div 2) - 1
                    /\ arith.parent < i
        /\ arith.status = "children" =>
               /\ arith.left = (2 * i) + 1
               /\ arith.left % 2 = 1
               /\ arith.right = arith.left + 1
               /\ arith.right % 2 = 0
               /\ arith.left_parent = i
               /\ arith.right_parent = i

\* ------------------------------------------ the index set under set_leaf
\* C31: set_leaf never adds or removes a node index: during and after a
\* call, whether it succeeds or fails and whatever its depth and position,
\* the indices in the store are those present when it started, and on a
\* tree initialized with depth D they are exactly 0 .. 2^(D+1) - 2.
SetLeafKeepsIndexSet ==
    /\ \A self \in Procs :
           ret[self].op = "set_leaf" =>
               DOMAIN store = DOMAIN ret[self].pre
    /\ tree_depth >= 0 =>
           DOMAIN store = 0 .. (Pow2(tree_depth + 1) - 2)

\* on an initialized tree a call with a position past the last leaf has
\* failed after a call that flushed its ancestors
WitnessSetLeafKeepsIndexSet ==
    /\ tree_depth >= 1
    /\ ncalls >= 2
    /\ pc[1] = "idle"
    /\ ret[1].op = "set_leaf" /\ ret[1].status = "panic"
    /\ ret[1].depth = tree_depth /\ ret[1].pos = Pow2(tree_depth)
    /\ store[0] # LevelValue(0, tree_depth)

\* a call on the empty table has returned and the table is still empty
WitnessSetLeafOnEmptyTable ==
    /\ tree_depth = -1
    /\ pc[1] = "idle"
    /\ ret[1].op = "set_leaf"
    /\ store = EmptyStore

\* ------------------------------------- set_leaf past the last leaf
\* calls on an initialized tree with its own depth: positions of leaves,
\* and positions from the first one past the last leaf up to one past the
\* first position whose leaf index has a parent outside the leaf level
CallsOutOfRange ==
    \/ /\ tree_depth = -1
       /\ \E depth \in Depths : InitTree(1, depth)
    \/ /\ tree_depth >= 0
       /\ \E p \in 0 .. (Pow2(tree_depth + 1) + 1) : \E v \in LeafValues :
              SetLeafWrite(1, tree_depth, p, v)
    \/ GetHashesLevel(1)
    \/ GetHashesPanic(1)
    \/ GetHashesDone(1)
    \/ SetLeafFlush(1)

NextOutOfRange == CallsOutOfRange /\ UNCHANGED aux_vars

SpecOutOfRange == Init /\ [][NextOutOfRange]_vars

\* the call of backend 1 is a set_leaf on the initialized tree, with the
\* depth of the tree and a position past the last leaf
OutOfRangeCall ==
    /\ tree_depth >= 0
    /\ ret[1].op = "set_leaf"
    /\ ret[1].depth = tree_depth
    /\ ret[1].pos >= Pow2(tree_depth)

\* C32: on an initialized depth-D tree, set_leaf(D, p, v) with p >= 2^D
\* leaves every stored node unchanged and never returns normally: the leaf
\* index has no row, the first parent examined has a left child past the
\* last stored index, so the first level fails, nothing is put in the
\* overlay and the bulk write is never reached.
OutOfRangeSetLeafFails ==
    OutOfRangeCall =>
        LET D == tree_depth
            last == Pow2(D + 1) - 2
            leaf_index_ == Pow2(D) + ret[1].pos - 1
            parent == node_parent(leaf_index_)
        IN  /\ store = ret[1].pre
            /\ ~HasRow(store, leaf_index_)
            /\ parent # None
            /\ first_child(parent) > last
            /\ pc[1] # "flush"
            /\ pc[1] = "idle" => ret[1].status = "panic"
            /\ pc[1] = "get_hashes" =>
                   /\ start_index[1] = leaf_index_
                   /\ end_index[1] = leaf_index_
                   /\ to_update[1] = EmptyOverlay
                   /\ ~hash_parents(store, to_update[1], parent, parent).ok

\* after a call that changed the root, a call with a position beyond the
\* first one past the last leaf has failed
WitnessOutOfRangeSetLeafFails ==
    /\ OutOfRangeCall
    /\ tree_depth >= 1
    /\ ret[1].pos > Pow2(tree_depth)
    /\ ret[1].value # FrDefault
    /\ pc[1] = "idle" /\ ret[1].status = "panic"
    /\ store[0] # LevelValue(0, tree_depth)

\* ------------------------------------ two set_leaf calls in both orders
\* Two calls on different leaves are run one after the other, the table is
\* put back as it was before the first, and the same two calls are run in
\* the opposite order. snap keeps the arguments, the table before the
\* first call (s0, with the history variables) and the table after the
\* first order (ab); snap.phase is "free" before the pair, "ab1", "ab2"
\* during and after the first order, "ba0", "ba1", "ba2" for the second.
NoCommute ==
    [phase |-> "free", p1 |-> 0, v1 |-> FrDefault, p2 |-> 0,
     v2 |-> FrDefault, s0 |-> EmptyStore, leaves0 |-> EmptyStore,
     aligned0 |-> TRUE, ncalls0 |-> 0, ab |-> EmptyStore]

CommuteInit ==
    /\ TreeInit
    /\ snap = NoCommute
    /\ overlapped = FALSE /\ meter = NoMeter /\ hash_call = NoHashCall
    /\ lazy = LazyUnforced /\ codec = NoCodec /\ GenIdle

\* the previous call of the backend has returned
Returned(self) == pc[self] = "idle" /\ ret[self].status = "ok"

\* a call on a leaf of the tree before the pair
CommutePrior(index_in_mtree, leaf_value) ==
    /\ snap.phase = "free"
    /\ SetLeafWrite(1, tree_depth, index_in_mtree, leaf_value)
    /\ UNCHANGED snap

\* set_leaf(D, p1, v1) as the first call of the first order
CommuteFirst(p1, v1, p2, v2) ==
    /\ snap.phase = "free"
    /\ p1 # p2
    /\ ncalls + 2 <= MaxCalls
    /\ SetLeafWrite(1, tree_depth, p1, v1)
    /\ snap' = [phase |-> "ab1", p1 |-> p1, v1 |-> v1, p2 |-> p2,
                v2 |-> v2, s0 |-> store, leaves0 |-> leaves,
                aligned0 |-> aligned, ncalls0 |-> ncalls,
                ab |-> EmptyStore]

\* set_leaf(D, p2, v2) after set_leaf(D, p1, v1) has returned
CommuteSecond ==
    /\ snap.phase = "ab1"
    /\ Returned(1)
    /\ SetLeafWrite(1, tree_depth, snap.p2, snap.v2)
    /\ snap' = [snap EXCEPT !.phase = "ab2"]

\* the table is again the one the first order started from
CommuteRewind ==
    /\ snap.phase = "ab2"
    /\ Returned(1)
    /\ snap' = [snap EXCEPT !.phase = "ba0", !.ab = store]
    /\ store' = snap.s0
    /\ leaves' = snap.leaves0
    /\ aligned' = snap.aligned0
    /\ ncalls' = snap.ncalls0
    /\ UNCHANGED <<locals, ret, tree_depth>>

\* set_leaf(D, p2, v2) as the first call of the opposite order
CommuteFirstOpposite ==
    /\ snap.phase = "ba0"
    /\ SetLeafWrite(1, tree_depth, snap.p2, snap.v2)
    /\ snap' = [snap EXCEPT !.phase = "ba1"]

\* set_leaf(D, p1, v1) after set_leaf(D, p2, v2) has returned
CommuteSecondOpposite ==
    /\ snap.phase = "ba1"
    /\ Returned(1)
    /\ SetLeafWrite(1, tree_depth, snap.p1, snap.v1)
    /\ snap' = [snap EXCEPT !.phase = "ba2"]

CallsCommute ==
    \/ /\ tree_depth = -1
       /\ \E depth \in Depths : InitTree(1, depth)
       /\ UNCHANGED snap
    \/ /\ tree_depth >= 1
       /\ \E p \in 0 .. (Pow2(tree_depth) - 1) : \E v \in LeafValues :
              CommutePrior(p, v)
    \/ /\ tree_depth >= 1
       /\ \E p1, p2 \in 0 .. (Pow2(tree_depth) - 1) :
          \E v1, v2 \in LeafValues : CommuteFirst(p1, v1, p2, v2)
    \/ CommuteSecond
    \/ CommuteRewind
    \/ CommuteFirstOpposite
    \/ CommuteSecondOpposite
    \/ GetHashesLevel(1) /\ UNCHANGED snap
    \/ GetHashesDone(1) /\ UNCHANGED snap
    \/ SetLeafFlush(1) /\ UNCHANGED snap

NextCommute ==
    /\ CallsCommute
    /\ UNCHANGED <<overlapped, meter, hash_call, lazy, codec, gen_vars>>

SpecCommute == CommuteInit /\ [][NextCommute]_vars

\* C33: for p1 # p2, both leaves of the tree, set_leaf(D, p1, v1) followed
\* by set_leaf(D, p2, v2) leaves at every stored node the value that
\* set_leaf(D, p2, v2) followed by set_leaf(D, p1, v1) leaves there, each
\* call having returned before the next one starts.
SetLeafCallsCommute ==
    (snap.phase = "ba2" /\ pc[1] = "idle") =>
        /\ ret[1].status = "ok"
        /\ DOMAIN store = DOMAIN snap.ab
        /\ \A i \in DOMAIN store : store[i] = snap.ab[i]

\* both orders have been run on a tree of depth >= 2 that an earlier call
\* had changed, for two leaves under different parents and two values
\* that are not the default
WitnessSetLeafCallsCommute ==
    /\ snap.phase = "ba2" /\ pc[1] = "idle"
    /\ tree_depth >= 2
    /\ snap.p1 \div 2 # snap.p2 \div 2
    /\ snap.v1 # FrDefault /\ snap.v2 # FrDefault
    /\ snap.s0[0] # LevelValue(0, tree_depth)
    /\ store # snap.s0

\* both orders have been run for two leaves that share their parent
WitnessSetLeafSiblingsCommute ==
    /\ snap.phase = "ba2" /\ pc[1] = "idle"
    /\ snap.p1 \div 2 = snap.p2 \div 2
    /\ snap.v1 # FrDefault /\ snap.v2 # FrDefault
    /\ store # snap.s0

====
